---------------------------- MODULE Spec2Model ----------------------------
(***************************************************************************)
(* A model of sentinel_trend: the backtest engine (backtest/engine.py,     *)
(* backtest/costs.py), the trend-signal derivation (strategy/trend_sma.py),*)
(* the trading calendar (data/calendar.py), the metrics                    *)
(* (backtest/metrics.py) and the variant comparison (research/runner.py).  *)
(*                                                                         *)
(* Every function of the core is pure, so each is an operator computed as  *)
(* the code computes it, and an action applies it to inputs drawn from     *)
(* bounded sets: `call` holds the function called with its arguments and   *)
(* `ret` what the call returned or raised. compare_variants runs the       *)
(* variant pipeline once per window, a step each: `frame` holds its locals *)
(* between the steps and is None for every other function. `world` is    *)
(* what lies outside the process, the price files of the data source and  *)
(* of the cache directory, and is None where no function reads them.      *)
(*                                                                         *)
(* A date is a day number; floats are modelled as exact rationals          *)
(* [n |-> numerator, d |-> denominator > 0] in lowest terms, so the model  *)
(* speaks of the real-number value of every float expression; where the    *)
(* rounding of floats matters (volatility) it is modelled as such.         *)
(***************************************************************************)
EXTENDS Integers, Sequences, FiniteSets, TLC

VARIABLES call, ret, frame, world

vars == <<call, ret, frame, world>>

----------------------------------------------------------------------------
(* Bounds of the model. *)

\* Dates are the day numbers 1..MaxDay.
MaxDay == 3
\* A decision list handed to run_backtest has at most MaxDecisions entries.
MaxDecisions == 3
\* A month of the model's calendar has DaysPerMonth days.
DaysPerMonth == 2
\* The days make_trend_decisions is checked on are 1..MaxSignalDay.
MaxSignalDay == 6
\* Closes are the integers 1..MaxPrice.
MaxPrice == 3
\* Windows range over -1..MaxWindow.
MaxWindow == 3
\* compute_sma is checked on sequences of at most MaxLen values.
MaxLen == 4

Dates == 1..MaxDay

----------------------------------------------------------------------------
(* Python values. *)

\* None, and a value that is not None.
None == <<>>
Some(x) == <<x>>

\* A call that returned v, and a call that raised exception exc.
Return(v) == [ok |-> TRUE, val |-> v]
Raise(exc, msg) == [ok |-> FALSE, exc |-> exc, msg |-> msg]

\* dict.get(key): None when the key is absent.
Get(m, key) == IF key \in DOMAIN m THEN Some(m[key]) ELSE None

\* The elements of a sequence.
Range(s) == {s[k] : k \in DOMAIN s}

----------------------------------------------------------------------------
(* Exact rationals for float arithmetic. *)

Abs(x) == IF x < 0 THEN -x ELSE x

RECURSIVE GCD(_, _)
GCD(a, b) == IF b = 0 THEN a ELSE GCD(b, a % b)

\* n/d in lowest terms, d > 0.
Rat(n, d) ==
    LET g == GCD(Abs(n), Abs(d))
        s == IF d < 0 THEN -1 ELSE 1
    IN  [n |-> (s * n) \div g, d |-> (s * d) \div g]

RInt(k) == [n |-> k, d |-> 1]
RMul(x, y) == Rat(x.n * y.n, x.d * y.d)
RDiv(x, y) == Rat(x.n * y.d, x.d * y.n)
RSub(x, y) == Rat(x.n * y.d - y.n * x.d, x.d * y.d)
RAdd(x, y) == Rat(x.n * y.d + y.n * x.d, x.d * y.d)
RLess(x, y) == x.n * y.d < y.n * x.d

----------------------------------------------------------------------------
(* data/calendar.py *)

\* sorted(S): the elements of a set of dates in increasing order.
RECURSIVE Sorted(_)
Sorted(S) ==
    IF S = {} THEN <<>>
    ELSE LET m == CHOOSE x \in S : \A y \in S : x <= y
         IN  <<m>> \o Sorted(S \ {m})

trading_days_from_prices(prices) == Sorted(DOMAIN prices)

intersect_trading_days(a, b) == Sorted(Range(a) \cap Range(b))

----------------------------------------------------------------------------
(* backtest/costs.py *)

apply_cost(value, cost_bps) ==
    LET cost_rate == Rat(cost_bps, 10000)
    IN  RMul(value, RSub(RInt(1), cost_rate))

----------------------------------------------------------------------------
(* backtest/engine.py *)

\* min(trade_dates)
MinDate(S) == CHOOSE x \in S : \A y \in S : x <= y

\* A mutant of first_decision_of: decisions[0], the first decision listed.
first_decision_listed(decisions) == decisions[1]

\* A mutant of first_decision_of: the last decision of the list among those
\* with the smallest trade_date.
first_decision_last_earliest(decisions) ==
    LET k == CHOOSE i \in DOMAIN decisions :
                 /\ \A j \in DOMAIN decisions :
                        decisions[i].trade_date <= decisions[j].trade_date
                 /\ \A j \in (i + 1)..Len(decisions) :
                        decisions[j].trade_date > decisions[i].trade_date
    IN  decisions[k]

\* min(decisions, key=lambda d: d.trade_date): the first decision of the
\* list among those with the smallest trade_date.
first_decision_of(decisions) ==
    LET k == CHOOSE i \in DOMAIN decisions :
                 /\ \A j \in DOMAIN decisions :
                        decisions[i].trade_date <= decisions[j].trade_date
                 /\ \A j \in 1..(i - 1) :
                        decisions[j].trade_date > decisions[i].trade_date
    IN  decisions[k]

\* next(d for d in decisions if d.trade_date == day): the first decision of
\* the list with that trade_date (the caller has checked there is one).
decision_on(decisions, day) ==
    LET k == CHOOSE i \in DOMAIN decisions :
                 /\ decisions[i].trade_date = day
                 /\ \A j \in 1..(i - 1) : decisions[j].trade_date # day
    IN  decisions[k]

\* A mutant of price_map_of: the two series taken for each other.
price_map_of_swapped(st, ctx) ==
    IF st.current_asset = "BIL" THEN ctx.prices_spy ELSE ctx.prices_bil

\* The price map of the held asset.
price_map_of(st, ctx) ==
    IF st.current_asset = "SPY" THEN ctx.prices_spy ELSE ctx.prices_bil

\* `if prev_day is not None:` the held asset's return of the day is
\* compounded into value, or the walk raises for a missing price.
Compound(st, day, ctx) ==
    IF st.prev_day = None THEN st
    ELSE LET price_map == price_map_of(st, ctx)
             prev_day == st.prev_day[1]
         IN  IF prev_day \notin DOMAIN price_map \/ day \notin DOMAIN price_map
             THEN [st EXCEPT !.err =
                       Some(Raise("ValueError", "missing price for held asset"))]
             ELSE [st EXCEPT !.value =
                       RMul(st.value,
                            RDiv(RInt(price_map[day]), RInt(price_map[prev_day])))]

\* A mutant of Switch: the cost is applied once, on the round trip.
Switch_one_leg(st, day, ctx) ==
    IF day \notin ctx.trade_dates THEN st
    ELSE LET decision == decision_on(ctx.decisions, day)
         IN  IF decision.target_asset = st.current_asset THEN st
             ELSE LET pre_value == st.value
                      value1 == apply_cost(pre_value, ctx.cost_bps)
                  IN  [st EXCEPT
                         !.value = value1,
                         !.current_asset = decision.target_asset,
                         !.trades = Append(st.trades,
                             [date |-> day,
                              from_asset |-> st.current_asset,
                              to_asset |-> decision.target_asset,
                              pre_value |-> pre_value,
                              post_value |-> value1,
                              cost_bps |-> ctx.cost_bps,
                              cost_amount |-> RSub(pre_value, value1)])]

\* A mutant of Switch: the latest decision up to the day is followed, also
\* one whose trade_date was no trading day.
Switch_catch_up(st, day, ctx) ==
    LET k == CHOOSE i \in DOMAIN ctx.decisions :
                 /\ ctx.decisions[i].trade_date <= day
                 /\ \A j \in DOMAIN ctx.decisions :
                        ctx.decisions[j].trade_date <= day =>
                            ctx.decisions[j].trade_date <= ctx.decisions[i].trade_date
        decision == ctx.decisions[k]
    IN  IF decision.target_asset = st.current_asset THEN st
        ELSE LET pre_value == st.value
                 value1 == apply_cost(pre_value, ctx.cost_bps)
                 from_asset == st.current_asset
                 value2 == apply_cost(value1, ctx.cost_bps)
                 cost_amount == RSub(pre_value, value2)
             IN  [st EXCEPT
                    !.value = value2,
                    !.current_asset = decision.target_asset,
                    !.trades = Append(st.trades,
                        [date |-> day,
                         from_asset |-> from_asset,
                         to_asset |-> decision.target_asset,
                         pre_value |-> pre_value,
                         post_value |-> value2,
                         cost_bps |-> ctx.cost_bps,
                         cost_amount |-> cost_amount])]

\* `if day in trade_dates:` the switch to the decision's target asset, both
\* legs of the cost, and the trade appended to the ledger.
Switch(st, day, ctx) ==
    IF day \notin ctx.trade_dates THEN st
    ELSE LET decision == decision_on(ctx.decisions, day)
         IN  IF decision.target_asset = st.current_asset THEN st
             ELSE LET pre_value == st.value
                      value1 == apply_cost(pre_value, ctx.cost_bps)
                      from_asset == st.current_asset
                      value2 == apply_cost(value1, ctx.cost_bps)
                      cost_amount == RSub(pre_value, value2)
                  IN  [st EXCEPT
                         !.value = value2,
                         !.current_asset = decision.target_asset,
                         !.trades = Append(st.trades,
                             [date |-> day,
                              from_asset |-> from_asset,
                              to_asset |-> decision.target_asset,
                              pre_value |-> pre_value,
                              post_value |-> value2,
                              cost_bps |-> ctx.cost_bps,
                              cost_amount |-> cost_amount])]

\* The two appends and `prev_day = day` ending the loop body.
Record(st, day) ==
    [st EXCEPT !.equity_curve = Append(st.equity_curve, <<day, st.value>>),
               !.holdings = Append(st.holdings, <<day, st.current_asset>>),
               !.prev_day = Some(day)]

\* A mutant of LoopBody: `if day <= start_date: continue`.
LoopBody_skip_start(st, day, ctx) ==
    IF day <= ctx.start_date THEN st
    ELSE LET st1 == Compound(st, day, ctx)
         IN  IF st1.err # None THEN st1
             ELSE Record(Switch(st1, day, ctx), day)

\* A mutant of LoopBody: the switch of the day is processed before the
\* return of the day is compounded.
LoopBody_switch_first(st, day, ctx) ==
    IF day < ctx.start_date THEN st
    ELSE LET st1 == Switch(st, day, ctx)
             st2 == Compound(st1, day, ctx)
         IN  IF st2.err # None THEN st2
             ELSE Record(st2, day)

\* One iteration of `for day in trading_days:`.
LoopBody(st, day, ctx) ==
    IF day < ctx.start_date THEN st
    ELSE LET st1 == Compound(st, day, ctx)
         IN  IF st1.err # None THEN st1
             ELSE Record(Switch(st1, day, ctx), day)

\* The loop from index i on; an exception ends it.
RECURSIVE WalkFrom(_, _, _, _)
WalkFrom(st, trading_days, i, ctx) ==
    IF i > Len(trading_days) \/ st.err # None THEN st
    ELSE WalkFrom(LoopBody(st, trading_days[i], ctx), trading_days, i + 1, ctx)

\* A mutant of BacktestResult: end_date=equity_curve[0][0].
BacktestResult_first_date(st, initial_value) ==
    [start_date |-> st.equity_curve[1][1],
     end_date |-> st.equity_curve[1][1],
     initial_value |-> initial_value,
     final_value |-> st.equity_curve[Len(st.equity_curve)][2],
     equity_curve |-> st.equity_curve,
     holdings |-> st.holdings,
     trades |-> st.trades]

\* The BacktestResult built after the loop.
BacktestResult(st, initial_value) ==
    [start_date |-> st.equity_curve[1][1],
     end_date |-> st.equity_curve[Len(st.equity_curve)][1],
     initial_value |-> initial_value,
     final_value |-> st.equity_curve[Len(st.equity_curve)][2],
     equity_curve |-> st.equity_curve,
     holdings |-> st.holdings,
     trades |-> st.trades]

run_backtest(trading_days, prices_by_asset, decisions, initial_value, cost_bps) ==
    IF decisions = <<>>
    THEN Raise("ValueError", "decisions must not be empty")
    ELSE
    LET prices_spy == Get(prices_by_asset, "SPY")
        prices_bil == Get(prices_by_asset, "BIL")
    IN
    IF prices_spy = None \/ prices_bil = None
    THEN Raise("ValueError", "prices_by_asset must contain SPY and BIL")
    ELSE
    LET trade_dates == {decisions[k].trade_date : k \in DOMAIN decisions}
        start_date == MinDate(trade_dates)
    IN
    \* end_date = trading_days[-1]
    IF trading_days = <<>>
    THEN Raise("IndexError", "list index out of range")
    ELSE
    IF start_date \notin Range(trading_days)
    THEN Raise("ValueError", "start_date not in trading_days")
    ELSE
    LET first_decision == first_decision_of(decisions)
        ctx == [prices_spy |-> prices_spy[1], prices_bil |-> prices_bil[1],
                decisions |-> decisions, trade_dates |-> trade_dates,
                start_date |-> start_date, cost_bps |-> cost_bps]
        st0 == [prev_day |-> None,
                current_asset |-> first_decision.target_asset,
                value |-> initial_value,
                trades |-> <<>>, equity_curve |-> <<>>, holdings |-> <<>>,
                err |-> None]
        st == WalkFrom(st0, trading_days, 1, ctx)
    IN
    IF st.err # None THEN st.err[1]
    ELSE
    IF st.equity_curve = <<>>
    THEN Raise("ValueError", "equity_curve is empty")
    ELSE Return(BacktestResult(st, initial_value))

----------------------------------------------------------------------------
(* strategy/trend_sma.py *)

\* sum(values)
RECURSIVE SumSeq(_)
SumSeq(values) ==
    IF values = <<>> THEN 0 ELSE values[1] + SumSeq(Tail(values))

\* values[-window:] for 0 < window <= len(values)
LastValues(values, window) ==
    SubSeq(values, Len(values) - window + 1, Len(values))

\* A mutant of compute_sma: values[:window], the first window values.
compute_sma_first_values(values, window) ==
    IF window <= 0
    THEN Raise("ValueError", "window must be positive")
    ELSE IF Len(values) < window
    THEN Raise("ValueError", "not enough values for window")
    ELSE Return(Rat(SumSeq(SubSeq(values, 1, window)), window))

compute_sma(values, window) ==
    IF window <= 0
    THEN Raise("ValueError", "window must be positive")
    ELSE IF Len(values) < window
    THEN Raise("ValueError", "not enough values for window")
    ELSE Return(Rat(SumSeq(LastValues(values, window)), window))

\* A mutant of decide_target: spy_close >= sma.
decide_target_inclusive(spy_close, sma) ==
    IF ~RLess(RInt(spy_close), sma) THEN "SPY" ELSE "BIL"

\* spy_close is a close (an integer of the model), sma a rational.
decide_target(spy_close, sma) ==
    IF RLess(sma, RInt(spy_close)) THEN "SPY" ELSE "BIL"

\* (day.year, day.month): months of DaysPerMonth days, counted from day 1.
MonthOf(day) == (day - 1) \div DaysPerMonth

\* A mutant of MonthEndsFrom: the `month_ends.append(last_day)` after the
\* loop is missing.
RECURSIVE MonthEndsFrom_no_final(_, _, _)
MonthEndsFrom_no_final(st, trading_days, i) ==
    IF i > Len(trading_days)
    THEN st.month_ends
    ELSE LET day == trading_days[i]
             current_month == MonthOf(day)
             changed == current_month # st.last_month
         IN  MonthEndsFrom_no_final(
                 [month_ends |-> IF changed
                                 THEN Append(st.month_ends, st.last_day)
                                 ELSE st.month_ends,
                  last_month |-> IF changed THEN current_month ELSE st.last_month,
                  last_day |-> day],
                 trading_days, i + 1)

\* `for day in trading_days[1:]` from index i on; st holds month_ends,
\* last_day and last_month.
RECURSIVE MonthEndsFrom(_, _, _)
MonthEndsFrom(st, trading_days, i) ==
    IF i > Len(trading_days)
    THEN Append(st.month_ends, st.last_day)
    ELSE LET day == trading_days[i]
             current_month == MonthOf(day)
             changed == current_month # st.last_month
         IN  MonthEndsFrom(
                 [month_ends |-> IF changed
                                 THEN Append(st.month_ends, st.last_day)
                                 ELSE st.month_ends,
                  last_month |-> IF changed THEN current_month ELSE st.last_month,
                  last_day |-> day],
                 trading_days, i + 1)

month_end_signal_dates(trading_days) ==
    IF trading_days = <<>> THEN <<>>
    ELSE MonthEndsFrom([month_ends |-> <<>>,
                        last_day |-> trading_days[1],
                        last_month |-> MonthOf(trading_days[1])],
                       trading_days, 2)

\* A mutant of next_trading_day: `if day >= d`.
next_trading_day_inclusive(trading_days, d) ==
    IF \E i \in DOMAIN trading_days : trading_days[i] >= d
    THEN LET k == CHOOSE i \in DOMAIN trading_days :
                      /\ trading_days[i] >= d
                      /\ \A j \in 1..(i - 1) : ~(trading_days[j] >= d)
         IN  Return(trading_days[k])
    ELSE Raise("ValueError", "no next trading day available")

\* A mutant of next_trading_day: the calendar day after d, not the next
\* trading day.
next_trading_day_calendar(trading_days, d) ==
    IF \E i \in DOMAIN trading_days : trading_days[i] > d
    THEN Return(d + 1)
    ELSE Raise("ValueError", "no next trading day available")

next_trading_day(trading_days, d) ==
    IF \E i \in DOMAIN trading_days : trading_days[i] > d
    THEN LET k == CHOOSE i \in DOMAIN trading_days :
                      /\ trading_days[i] > d
                      /\ \A j \in 1..(i - 1) : ~(trading_days[j] > d)
         IN  Return(trading_days[k])
    ELSE Raise("ValueError", "no next trading day available")

\* index_by_date.get(day), 0-based: a later entry of the comprehension
\* replaces an earlier one with the same key.
index_by_date(trading_days, day) ==
    IF day \notin Range(trading_days) THEN None
    ELSE LET k == CHOOSE i \in DOMAIN trading_days :
                      /\ trading_days[i] = day
                      /\ \A j \in (i + 1)..Len(trading_days) : trading_days[j] # day
         IN  Some(k - 1)

\* A mutant of SkipSignal: `idx < window`, one day of history too many.
SkipSignal_off_by_one(idx, window, n) == idx < window \/ idx >= n - 1

\* A mutant of SkipSignal: the signal on the final trading day is not skipped.
SkipSignal_keep_last(idx, window, n) == idx + 1 < window

\* The two `continue` tests on the 0-based index idx of a signal date in a
\* calendar of n days.
SkipSignal(idx, window, n) == idx + 1 < window \/ idx >= n - 1

\* The body of `for signal_date in month_end_signal_dates(trading_days):`
\* on acc = the decisions so far, or the exception raised.
DecisionStep(acc, signal_date, trading_days, spy_adj_close, window) ==
    LET idxo == index_by_date(trading_days, signal_date)
    IN
    IF idxo = None THEN acc
    ELSE
    LET idx == idxo[1]
    IN
    IF SkipSignal(idx, window, Len(trading_days)) THEN acc
    ELSE
    \* trading_days[idx - window + 1 : idx + 1], 0-based and end-exclusive
    LET window_days == SubSeq(trading_days, idx - window + 2, idx + 1)
    IN
    IF \E k \in DOMAIN window_days : window_days[k] \notin DOMAIN spy_adj_close
    THEN [acc EXCEPT !.err = Some(Raise("KeyError", "spy_adj_close[day]"))]
    ELSE
    LET window_values == [k \in DOMAIN window_days |-> spy_adj_close[window_days[k]]]
        sma == compute_sma(window_values, window)
    IN
    IF ~sma.ok THEN [acc EXCEPT !.err = Some(sma)]
    ELSE
    LET spy_close == spy_adj_close[signal_date]
        trade_date == next_trading_day(trading_days, signal_date)
    IN
    IF ~trade_date.ok THEN [acc EXCEPT !.err = Some(trade_date)]
    ELSE
    LET target == decide_target(spy_close, sma.val)
    IN  [acc EXCEPT !.decisions =
            Append(acc.decisions,
                   [signal_date |-> signal_date,
                    trade_date |-> trade_date.val,
                    spy_close |-> spy_close,
                    sma_200 |-> sma.val,
                    target_asset |-> target])]

RECURSIVE DecisionsFrom(_, _, _, _, _, _)
DecisionsFrom(acc, signal_dates, i, trading_days, spy_adj_close, window) ==
    IF i > Len(signal_dates) \/ acc.err # None THEN acc
    ELSE DecisionsFrom(
             DecisionStep(acc, signal_dates[i], trading_days, spy_adj_close, window),
             signal_dates, i + 1, trading_days, spy_adj_close, window)

make_trend_decisions(trading_days, spy_adj_close, window) ==
    IF window <= 0
    THEN Raise("ValueError", "window must be positive")
    ELSE LET acc == DecisionsFrom([decisions |-> <<>>, err |-> None],
                                  month_end_signal_dates(trading_days), 1,
                                  trading_days, spy_adj_close, window)
         IN  IF acc.err # None THEN acc.err[1] ELSE Return(acc.decisions)

----------------------------------------------------------------------------
(* The inputs run_backtest is applied to. *)

\* A calendar is a strictly increasing sequence of dates, as
\* intersect_trading_days returns it; the empty calendar is one of them.
Calendars == {Sorted(S) : S \in SUBSET Dates}

Assets == {"SPY", "BIL"}

\* The closes of the two assets: SPY rises by one a day (as in
\* tests/test_backtest_engine.py); BIL alternates between 2 and 3.
SpyClose(d) == d + 1
BilClose(d) == IF d % 2 = 1 THEN 2 ELSE 3

\* A price series with the days of `missing` absent.
SpySeries(missing) == [d \in Dates \ missing |-> SpyClose(d)]
BilSeries(missing) == [d \in Dates \ missing |-> BilClose(d)]

\* prices_by_asset: both series complete, one or both series absent from the
\* mapping, or one day absent from one of the two series.
PriceInputs ==
    {[a \in A |-> IF a = "SPY" THEN SpySeries({}) ELSE BilSeries({})] :
        A \in SUBSET Assets}
    \cup UNION {{[SPY |-> SpySeries({d}), BIL |-> BilSeries({})],
                 [SPY |-> SpySeries({}), BIL |-> BilSeries({d})]} : d \in Dates}

\* A TrendDecision trading on trade_date into target; run_backtest reads
\* only these two fields.
Decision(trade_date, target) ==
    [signal_date |-> trade_date - 1,
     trade_date |-> trade_date,
     spy_close |-> IF target = "SPY" THEN 2 ELSE 1,
     sma_200 |-> RInt(1),
     target_asset |-> target]

DecisionChoices == {Decision(d, a) : d \in Dates, a \in Assets}

\* Decision lists in any order, trade_dates repeated or not, in the
\* calendar or not.
DecisionLists == UNION {[1..n -> DecisionChoices] : n \in 0..MaxDecisions}

\* cost_bps: a quarter of the value per side, so that the squares of the
\* cost factor stay small integers' quotients.
CostChoices == {2500}

InitialValue == RInt(100)

----------------------------------------------------------------------------
(* The specifications. *)

\* run_backtest is about to be called on inputs drawn from the sets above.
InitBacktest ==
    /\ \E trading_days \in Calendars, prices_by_asset \in PriceInputs,
          decisions \in DecisionLists, cost_bps \in CostChoices :
          call = [fn |-> "run_backtest",
                  trading_days |-> trading_days,
                  prices_by_asset |-> prices_by_asset,
                  decisions |-> decisions,
                  initial_value |-> InitialValue,
                  cost_bps |-> cost_bps]
    /\ ret = None
    /\ frame = None
    /\ world = None

\* The call of run_backtest returns or raises.
CallRunBacktest ==
    /\ call.fn = "run_backtest"
    /\ ret = None
    /\ ret' = Some(run_backtest(call.trading_days, call.prices_by_asset,
                                call.decisions, call.initial_value,
                                call.cost_bps))
    /\ UNCHANGED <<call, frame, world>>

NextBacktest == CallRunBacktest

SpecBacktest == InitBacktest /\ [][NextBacktest]_vars

----------------------------------------------------------------------------
(* The inputs make_trend_decisions and compute_sma are applied to. *)

SignalDates == 1..MaxSignalDay

Closes == 1..MaxPrice

\* window: not positive, or up to MaxWindow.
Windows == (-1)..MaxWindow

\* A series of SPY closes; its calendar is trading_days_from_prices of it.
SpySeriesInputs == UNION {[S -> Closes] : S \in SUBSET SignalDates}

InitDecisions ==
    /\ \E spy_adj_close \in SpySeriesInputs, window \in Windows :
          call = [fn |-> "make_trend_decisions",
                  trading_days |-> trading_days_from_prices(spy_adj_close),
                  spy_adj_close |-> spy_adj_close,
                  window |-> window]
    /\ ret = None
    /\ frame = None
    /\ world = None

\* The call of make_trend_decisions returns or raises.
CallMakeTrendDecisions ==
    /\ call.fn = "make_trend_decisions"
    /\ ret = None
    /\ ret' = Some(make_trend_decisions(call.trading_days, call.spy_adj_close,
                                        call.window))
    /\ UNCHANGED <<call, frame, world>>

NextDecisions == CallMakeTrendDecisions

SpecDecisions == InitDecisions /\ [][NextDecisions]_vars

ValueLists == UNION {[1..n -> Closes] : n \in 0..MaxLen}

InitSma ==
    /\ \E values \in ValueLists, window \in Windows :
          call = [fn |-> "compute_sma", values |-> values, window |-> window]
    /\ ret = None
    /\ frame = None
    /\ world = None

\* The call of compute_sma returns or raises.
CallComputeSma ==
    /\ call.fn = "compute_sma"
    /\ ret = None
    /\ ret' = Some(compute_sma(call.values, call.window))
    /\ UNCHANGED <<call, frame, world>>

NextSma == CallComputeSma

SpecSma == InitSma /\ [][NextSma]_vars

----------------------------------------------------------------------------
(* The inputs month_end_signal_dates and next_trading_day are applied to. *)

\* Calendars over the signal dates.
SignalCalendars == {Sorted(S) : S \in SUBSET SignalDates}

InitMonthEnds ==
    /\ \E trading_days \in SignalCalendars :
          call = [fn |-> "month_end_signal_dates", trading_days |-> trading_days]
    /\ ret = None
    /\ frame = None
    /\ world = None

\* The call of month_end_signal_dates returns.
CallMonthEndSignalDates ==
    /\ call.fn = "month_end_signal_dates"
    /\ ret = None
    /\ ret' = Some(Return(month_end_signal_dates(call.trading_days)))
    /\ UNCHANGED <<call, frame, world>>

NextMonthEnds == CallMonthEndSignalDates

SpecMonthEnds == InitMonthEnds /\ [][NextMonthEnds]_vars

\* d: a trading day or not, before, within or after the calendar.
QueryDates == 0..(MaxSignalDay + 1)

InitNextDay ==
    /\ \E trading_days \in SignalCalendars, d \in QueryDates :
          call = [fn |-> "next_trading_day", trading_days |-> trading_days, d |-> d]
    /\ ret = None
    /\ frame = None
    /\ world = None

\* The call of next_trading_day returns or raises.
CallNextTradingDay ==
    /\ call.fn = "next_trading_day"
    /\ ret = None
    /\ ret' = Some(next_trading_day(call.trading_days, call.d))
    /\ UNCHANGED <<call, frame, world>>

NextNextDay == CallNextTradingDay

SpecNextDay == InitNextDay /\ [][NextNextDay]_vars

----------------------------------------------------------------------------
(* Claims about run_backtest. *)

\* The call of run_backtest has ended, by a return or by an exception.
BacktestDone == call.fn = "run_backtest" /\ ret # None

\* The call returned a BacktestResult.
BacktestReturned == BacktestDone /\ ret[1].ok

\* The call raised exc with message msg.
BacktestRaised(exc, msg) ==
    BacktestDone /\ ~ret[1].ok /\ ret[1].exc = exc /\ ret[1].msg = msg

MissingPrice == BacktestRaised("ValueError", "missing price for held asset")

TradeDatesOf(decisions) == {decisions[k].trade_date : k \in DOMAIN decisions}

DistinctTradeDates(decisions) ==
    \A i, j \in DOMAIN decisions :
        decisions[i].trade_date = decisions[j].trade_date => i = j

\* The targets of the decisions trading on day.
TargetsOn(decisions, day) ==
    {decisions[k].target_asset :
        k \in {i \in DOMAIN decisions : decisions[i].trade_date = day}}

\* The indices k >= 2 of the simulated days on which a decision asks for an
\* asset other than the one held at the end of simulated day k - 1.
SwitchDays(decisions, holdings) ==
    {k \in 2..Len(holdings) :
        \E a \in TargetsOn(decisions, holdings[k][1]) : a # holdings[k - 1][2]}

\* C1: with pairwise distinct trade_dates, the ledger holds exactly one trade
\* for each simulated day that is the trade_date of a decision whose target
\* differs from the asset held at the end of the previous simulated day, in
\* the order of the days, and no other trade; the trade is dated that day,
\* goes from the held asset to the decision's target, and these differ.
C1_OneTradePerSwitch ==
    (BacktestReturned /\ DistinctTradeDates(call.decisions)) =>
        LET r == ret[1].val
            K == Sorted(SwitchDays(call.decisions, r.holdings))
        IN  /\ Len(r.trades) = Len(K)
            /\ \A i \in 1..Len(K) :
                   /\ r.trades[i].date = r.holdings[K[i]][1]
                   /\ r.trades[i].from_asset = r.holdings[K[i] - 1][2]
                   /\ TargetsOn(call.decisions, r.holdings[K[i]][1])
                          = {r.trades[i].to_asset}
                   /\ r.trades[i].from_asset # r.trades[i].to_asset

\* Two switches were traded, on two days of the walk.
C1_Witness ==
    /\ BacktestReturned
    /\ DistinctTradeDates(call.decisions)
    /\ Len(ret[1].val.trades) = 2
    /\ ret[1].val.trades[1].date < ret[1].val.trades[2].date

\* (1 - cost_bps/10000)^2
TwoLegFactor(cost_bps) ==
    Rat((10000 - cost_bps) * (10000 - cost_bps), 10000 * 10000)

\* C2: every trade has post_value = pre_value * (1 - cost_bps/10000)^2 and
\* cost_amount = pre_value - post_value, and the equity curve's entry for the
\* trade's date holds post_value.
C2_TwoSidedCost ==
    BacktestReturned =>
        LET r == ret[1].val
        IN  \A i \in DOMAIN r.trades :
                LET t == r.trades[i]
                IN  /\ t.cost_bps = call.cost_bps
                    /\ t.post_value = RMul(t.pre_value, TwoLegFactor(t.cost_bps))
                    /\ t.cost_amount = RSub(t.pre_value, t.post_value)
                    /\ \E k \in DOMAIN r.equity_curve :
                           r.equity_curve[k] = <<t.date, t.post_value>>
                    /\ \A k \in DOMAIN r.equity_curve :
                           r.equity_curve[k][1] = t.date
                               => r.equity_curve[k][2] = t.post_value

\* A trade that paid a cost on a value the held asset's return had changed.
C2_Witness ==
    /\ BacktestReturned
    /\ \E i \in DOMAIN ret[1].val.trades :
           /\ ret[1].val.trades[i].cost_bps > 0
           /\ ret[1].val.trades[i].pre_value # call.initial_value
           /\ RLess(ret[1].val.trades[i].post_value,
                    ret[1].val.trades[i].pre_value)

\* The dates of a curve or timeline of (date, x) pairs.
DatesOf(curve) == [k \in DOMAIN curve |-> curve[k][1]]

\* The calendar from its first day >= d on.
SuffixFrom(trading_days, d) ==
    LET first == CHOOSE i \in 1..(Len(trading_days) + 1) :
                     /\ i <= Len(trading_days) => trading_days[i] >= d
                     /\ \A j \in 1..(i - 1) : trading_days[j] < d
    IN  SubSeq(trading_days, first, Len(trading_days))

\* C3: the equity curve's dates are the calendar from the earliest trade_date
\* to the last calendar day, each day once, and the holdings timeline has the
\* same dates in the same positions.
C3_CurveIsCalendarSuffix ==
    BacktestReturned =>
        LET r == ret[1].val
            start == MinDate(TradeDatesOf(call.decisions))
            suffix == SuffixFrom(call.trading_days, start)
        IN  /\ suffix # <<>>
            /\ suffix[1] = start
            /\ DatesOf(r.equity_curve) = suffix
            /\ DatesOf(r.holdings) = suffix
            /\ Len(r.holdings) = Len(r.equity_curve)

\* The walk skipped calendar days before the start date and simulated several.
C3_Witness ==
    /\ BacktestReturned
    /\ Len(ret[1].val.equity_curve) >= 2
    /\ Len(ret[1].val.equity_curve) < Len(call.trading_days)

\* C4: a returned BacktestResult has a non-empty equity curve with strictly
\* increasing dates, final_value is the last curve value, start_date the
\* first curve date and end_date the last curve date.
C4_ResultInvariant ==
    BacktestReturned =>
        LET r == ret[1].val
            n == Len(r.equity_curve)
        IN  /\ n >= 1
            /\ \A k \in 1..(n - 1) : r.equity_curve[k][1] < r.equity_curve[k + 1][1]
            /\ r.final_value = r.equity_curve[n][2]
            /\ r.start_date = r.equity_curve[1][1]
            /\ r.end_date = r.equity_curve[n][1]

\* A result whose curve has several points and whose value moved.
C4_Witness ==
    /\ BacktestReturned
    /\ Len(ret[1].val.equity_curve) >= 3
    /\ ret[1].val.final_value # ret[1].val.initial_value

\* The preconditions of run_backtest.
BacktestInputValid ==
    /\ call.decisions # <<>>
    /\ {"SPY", "BIL"} \subseteq DOMAIN call.prices_by_asset
    /\ MinDate(TradeDatesOf(call.decisions)) \in Range(call.trading_days)

\* C5: run_backtest raises ValueError, and returns nothing, whenever
\* decisions is empty, SPY or BIL is absent from prices_by_asset, or the
\* earliest trade_date is not in trading_days, for every trading_days
\* sequence, the empty one included.
C5_InvalidInputRaisesValueError ==
    (BacktestDone /\ ~BacktestInputValid) =>
        (~ret[1].ok /\ ret[1].exc = "ValueError")

\* The first simulated day k >= 2 counts as faulty when the asset held at the
\* end of simulated day k - 1 has no price on day k or on day k - 1.  The
\* asset held at the end of a day is the target of the first decision listed
\* for the latest calendar trade_date up to that day.
HeldAtEnd(decisions, trading_days, day) ==
    LET last == CHOOSE t \in TradeDatesOf(decisions) \cap Range(trading_days) :
                    /\ t <= day
                    /\ \A u \in TradeDatesOf(decisions) \cap Range(trading_days) :
                           u <= day => u <= t
        k == CHOOSE i \in DOMAIN decisions :
                 /\ decisions[i].trade_date = last
                 /\ \A j \in 1..(i - 1) : decisions[j].trade_date # last
    IN  decisions[k].target_asset

FaultyDays ==
    LET sim == SuffixFrom(call.trading_days,
                          MinDate(TradeDatesOf(call.decisions)))
    IN  {k \in 2..Len(sim) :
            LET held == HeldAtEnd(call.decisions, call.trading_days, sim[k - 1])
                series == call.prices_by_asset[held]
            IN  sim[k] \notin DOMAIN series \/ sim[k - 1] \notin DOMAIN series}

\* C6: on valid inputs run_backtest raises MissingPrice exactly when some
\* simulated day after the start date finds the asset held at the end of the
\* previous day without a price on that day or on the previous simulated day,
\* and returns a result otherwise: a price missing from the series of the
\* asset not held raises nothing.
C6_MissingPriceOfHeldAsset ==
    (BacktestDone /\ BacktestInputValid) =>
        /\ FaultyDays # {} => MissingPrice
        /\ FaultyDays = {} => BacktestReturned

\* The walk simulated two days and raised on the third, after a switch.
C6_Witness ==
    /\ BacktestDone /\ BacktestInputValid
    /\ MissingPrice
    /\ FaultyDays = {3}
    /\ HeldAtEnd(call.decisions, call.trading_days, call.trading_days[1])
         # HeldAtEnd(call.decisions, call.trading_days, call.trading_days[2])

\* A day of the walk is missing from the series of the asset not held, and
\* the call returned.
C6_ReturnedDespiteHole ==
    /\ BacktestReturned
    /\ Len(ret[1].val.holdings) >= 2
    /\ \E k \in DOMAIN ret[1].val.holdings, a \in Assets :
           /\ ret[1].val.holdings[k][1] \notin DOMAIN call.prices_by_asset[a]
           /\ k >= 2

----------------------------------------------------------------------------
(* Claims about make_trend_decisions. *)

DecisionsDone == call.fn = "make_trend_decisions" /\ ret # None

DecisionsReturned == DecisionsDone /\ ret[1].ok

\* The 1-based calendar index of a calendar day.
IndexOf(trading_days, day) ==
    CHOOSE i \in DOMAIN trading_days : trading_days[i] = day

\* Calendar index i holds the last trading day of its month.
IsMonthEnd(trading_days, i) ==
    \/ i = Len(trading_days)
    \/ MonthOf(trading_days[i]) # MonthOf(trading_days[i + 1])

\* The 1-based indices of the signal dates that trade: month ends with at
\* least `window` days of history that are not the last calendar day (the
\* 0-based index i of the claim is this index minus one).
EligibleIndices(trading_days, window) ==
    {i \in DOMAIN trading_days :
        /\ IsMonthEnd(trading_days, i)
        /\ i >= window
        /\ i # Len(trading_days)}

\* C7: for window > 0, make_trend_decisions returns one TrendDecision for
\* each month-end signal date at 0-based index i with i + 1 >= window that
\* is not the last index, none for any other date, in increasing
\* signal_date order.
C7_OneDecisionPerEligibleMonthEnd ==
    (DecisionsDone /\ call.window > 0) =>
        /\ ret[1].ok
        /\ [k \in DOMAIN ret[1].val |-> ret[1].val[k].signal_date]
             = Sorted({call.trading_days[i] :
                          i \in EligibleIndices(call.trading_days, call.window)})

\* A decision was emitted, a month end was skipped for lack of history, and
\* the last calendar day, a month end, was skipped too.
C7_Witness ==
    /\ DecisionsReturned
    /\ Len(ret[1].val) >= 1
    /\ \E i \in DOMAIN call.trading_days :
           IsMonthEnd(call.trading_days, i) /\ i < call.window

\* C8: every emitted TrendDecision has its signal_date and its trade_date in
\* the calendar, and its trade_date is the calendar day right after its
\* signal_date, so later than it; no two decisions share a trade_date.
C8_TradeDateFollowsSignalDate ==
    DecisionsReturned =>
        /\ \A k \in DOMAIN ret[1].val :
               LET dec == ret[1].val[k]
               IN  /\ dec.signal_date \in Range(call.trading_days)
                   /\ dec.trade_date \in Range(call.trading_days)
                   /\ dec.trade_date > dec.signal_date
                   /\ IndexOf(call.trading_days, dec.trade_date)
                        = IndexOf(call.trading_days, dec.signal_date) + 1
        /\ \A j, k \in DOMAIN ret[1].val :
               ret[1].val[j].trade_date = ret[1].val[k].trade_date => j = k

\* Two decisions, one of them trading more than a day after its signal.
C8_Witness ==
    /\ DecisionsReturned
    /\ Len(ret[1].val) >= 2
    /\ \E k \in DOMAIN ret[1].val :
           ret[1].val[k].trade_date > ret[1].val[k].signal_date + 1

\* The sum of the closes on calendar indices lo..hi.
RECURSIVE CloseSum(_, _, _, _)
CloseSum(trading_days, closes, lo, hi) ==
    IF lo > hi THEN 0
    ELSE closes[trading_days[hi]] + CloseSum(trading_days, closes, lo, hi - 1)

\* C9: for each emitted decision with signal date s, sma_200 is the mean of
\* the closes on the `window` consecutive calendar days ending at s,
\* spy_close is the close at s, and target_asset is SPY iff spy_close >
\* sma_200 strictly, BIL otherwise, so on a tie.
C9_SmaCloseAndTarget ==
    DecisionsReturned =>
        \A k \in DOMAIN ret[1].val :
            LET dec == ret[1].val[k]
                i == IndexOf(call.trading_days, dec.signal_date)
                total == CloseSum(call.trading_days, call.spy_adj_close,
                                  i - call.window + 1, i)
            IN  /\ i - call.window + 1 >= 1
                /\ dec.sma_200.n * call.window = total * dec.sma_200.d
                /\ dec.spy_close = call.spy_adj_close[dec.signal_date]
                /\ dec.target_asset \in {"SPY", "BIL"}
                /\ dec.target_asset = "SPY" <=> dec.spy_close * call.window > total

\* A tie between the close and the mean of a window of unequal closes,
\* decided for BIL.
C9_Witness ==
    /\ DecisionsReturned
    /\ \E k \in DOMAIN ret[1].val :
           LET dec == ret[1].val[k]
               i == IndexOf(call.trading_days, dec.signal_date)
           IN  /\ dec.sma_200 = RInt(dec.spy_close)
               /\ dec.target_asset = "BIL"
               /\ \E j \in (i - call.window + 1)..i :
                      call.spy_adj_close[call.trading_days[j]] # dec.spy_close

\* A close above the mean of its window, decided for SPY.
C9_RiskTargetReached ==
    /\ DecisionsReturned
    /\ \E k \in DOMAIN ret[1].val :
           /\ ret[1].val[k].target_asset = "SPY"
           /\ RLess(ret[1].val[k].sma_200, RInt(ret[1].val[k].spy_close))

----------------------------------------------------------------------------
(* Claims about compute_sma. *)

SmaDone == call.fn = "compute_sma" /\ ret # None

\* The sum of values[lo..hi].
RECURSIVE ValueSum(_, _, _)
ValueSum(values, lo, hi) ==
    IF lo > hi THEN 0 ELSE values[hi] + ValueSum(values, lo, hi - 1)

\* C10: compute_sma returns the mean of the last `window` values when
\* 0 < window <= len(values), raises InvalidWindow when window <= 0 whatever
\* the length, and raises InsufficientData when len(values) < window.
C10_ComputeSma ==
    SmaDone =>
        LET n == Len(call.values)
            w == call.window
        IN  /\ (0 < w /\ w <= n) =>
                   /\ ret[1].ok
                   /\ ret[1].val.d > 0
                   /\ ret[1].val.n * w
                        = ValueSum(call.values, n - w + 1, n) * ret[1].val.d
            /\ w <= 0 =>
                   ret[1] = Raise("ValueError", "window must be positive")
            /\ (w > 0 /\ n < w) =>
                   ret[1] = Raise("ValueError", "not enough values for window")

\* A mean over a proper tail of the values, the values before it being
\* different from it.
C10_Witness ==
    /\ SmaDone
    /\ ret[1].ok
    /\ call.window >= 2
    /\ Len(call.values) > call.window
    /\ ret[1].val.d > 1
    /\ call.values[1] # call.values[Len(call.values)]

----------------------------------------------------------------------------
(* Claims about month_end_signal_dates and next_trading_day. *)

MonthEndsDone == call.fn = "month_end_signal_dates" /\ ret # None

\* C11: month_end_signal_dates returns, in chronological order, exactly the
\* last trading day of each month present in the calendar: one date per
\* distinct month, the final calendar day last, and the empty list for the
\* empty calendar.
C11_LastDayOfEachMonth ==
    MonthEndsDone =>
        LET td == call.trading_days
            out == ret[1].val
        IN  /\ ret[1].ok
            /\ out = Sorted({td[i] : i \in {j \in DOMAIN td : IsMonthEnd(td, j)}})
            /\ Len(out) = Cardinality({MonthOf(td[i]) : i \in DOMAIN td})
            /\ \A m \in {MonthOf(td[i]) : i \in DOMAIN td} :
                   \E k \in DOMAIN out :
                       /\ MonthOf(out[k]) = m
                       /\ \A i \in DOMAIN td : MonthOf(td[i]) = m => td[i] <= out[k]
            /\ td # <<>> => out[Len(out)] = td[Len(td)]
            /\ td = <<>> => out = <<>>

\* Three months, one of them with several trading days, and a last month
\* that stops before its end.
C11_Witness ==
    /\ MonthEndsDone
    /\ Len(ret[1].val) >= 3
    /\ Len(call.trading_days) > Len(ret[1].val)
    /\ call.trading_days[Len(call.trading_days)] % DaysPerMonth # 0

NextDayDone == call.fn = "next_trading_day" /\ ret # None

\* C12: next_trading_day returns the smallest trading day strictly greater
\* than d, whether d is a trading day or not, and raises NoNextTradingDay
\* exactly when no trading day is greater than d.
C12_SmallestLaterDay ==
    NextDayDone =>
        LET later == {x \in Range(call.trading_days) : x > call.d}
        IN  /\ later # {} =>
                   /\ ret[1].ok
                   /\ ret[1].val \in later
                   /\ \A x \in later : ret[1].val <= x
            /\ later = {} =>
                   ret[1] = Raise("ValueError", "no next trading day available")

\* d is not a trading day, lies between two of them, and the day returned is
\* not d + 1.
C12_Witness ==
    /\ NextDayDone
    /\ ret[1].ok
    /\ call.d \notin Range(call.trading_days)
    /\ \E x \in Range(call.trading_days) : x < call.d
    /\ ret[1].val > call.d + 1

\* d is the last trading day and the call raised.
C12_RaisedOnLastDay ==
    /\ NextDayDone
    /\ ~ret[1].ok
    /\ call.trading_days # <<>>
    /\ call.d = call.trading_days[Len(call.trading_days)]


-----------------------------------------------------------------------------
(* backtest/metrics.py *)

MaxValue == 4
MaxCurveLen == 4

RLeq(x, y) == ~RLess(y, x)

\* A mutant of DrawdownLoop: the peak stays at the first value of the curve.
RECURSIVE DrawdownLoop_first_peak(_, _)
DrawdownLoop_first_peak(points, acc) ==
    IF points = <<>> \/ acc.err # None THEN acc
    ELSE LET value == points[1][2]
             peak == acc.peak
         IN  IF peak.n = 0
             THEN [acc EXCEPT !.err =
                      Some(Raise("ZeroDivisionError", "float division by zero"))]
             ELSE LET drawdown == RDiv(RSub(value, peak), peak)
                      max_dd == IF RLess(drawdown, acc.max_dd)
                                THEN drawdown ELSE acc.max_dd
                  IN  DrawdownLoop_first_peak(Tail(points),
                          [acc EXCEPT !.peak = peak, !.max_dd = max_dd])

\* `for _, value in equity_curve:` of max_drawdown; acc holds peak and max_dd.
RECURSIVE DrawdownLoop(_, _)
DrawdownLoop(points, acc) ==
    IF points = <<>> \/ acc.err # None THEN acc
    ELSE LET value == points[1][2]
             peak == IF RLess(acc.peak, value) THEN value ELSE acc.peak
         IN  IF peak.n = 0
             THEN [acc EXCEPT !.err =
                      Some(Raise("ZeroDivisionError", "float division by zero"))]
             ELSE LET drawdown == RDiv(RSub(value, peak), peak)
                      max_dd == IF RLess(drawdown, acc.max_dd)
                                THEN drawdown ELSE acc.max_dd
                  IN  DrawdownLoop(Tail(points),
                          [acc EXCEPT !.peak = peak, !.max_dd = max_dd])

max_drawdown(equity_curve) ==
    IF equity_curve = <<>>
    THEN Raise("ValueError", "equity_curve must not be empty")
    ELSE LET acc == DrawdownLoop(equity_curve,
                        [peak |-> equity_curve[1][2], max_dd |-> RInt(0),
                         err |-> None])
         IN  IF acc.err # None THEN acc.err[1] ELSE Return(acc.max_dd)

RECURSIVE TwoTo(_)
TwoTo(k) == IF k = 0 THEN 1 ELSE 2 * TwoTo(k - 1)

\* 365.25, the days in a year of `years = days / 365.25`.
DaysPerYear == Rat(36525, 100)

\* A float is an overflow from 2^FloatMaxExp on.
FloatMaxExp == 1024

\* log2 of a power of two.
RECURSIVE Log2(_)
Log2(n) == IF n <= 1 THEN 0 ELSE 1 + Log2(n \div 2)

\* log2 of a rational whose numerator and denominator are powers of two.
Log2Rat(x) == Log2(x.n) - Log2(x.d)

\* base ** exponent - 1.0 for base >= 0 and exponent > 0. The power of a
\* rational is not a rational: the value is kept as the pair it is the power
\* of, and float pow raises OverflowError when the power is 2^1024 or more.
PowMinusOne(base, exponent) ==
    IF RLeq(RInt(FloatMaxExp), RMul(RInt(Log2Rat(base)), exponent))
    THEN Raise("OverflowError", "(34, 'Numerical result out of range')")
    ELSE Return([pow_base |-> base, pow_exponent |-> exponent])

\* A mutant of cagr: the power is taken to `years`, not to `1.0 / years`.
cagr_exponent_years(equity_curve) ==
    IF Len(equity_curve) < 2
    THEN Raise("ValueError", "equity_curve must have at least two points")
    ELSE LET start_date == equity_curve[1][1]
             start_value == equity_curve[1][2]
             end_date == equity_curve[Len(equity_curve)][1]
             end_value == equity_curve[Len(equity_curve)][2]
             days == end_date - start_date
         IN  IF days <= 0
             THEN Raise("ValueError", "equity_curve must span positive time")
             ELSE LET years == RDiv(RInt(days), DaysPerYear)
                  IN  IF start_value.n = 0
                      THEN Raise("ZeroDivisionError", "float division by zero")
                      ELSE PowMinusOne(RDiv(end_value, start_value), years)

cagr(equity_curve) ==
    IF Len(equity_curve) < 2
    THEN Raise("ValueError", "equity_curve must have at least two points")
    ELSE LET start_date == equity_curve[1][1]
             start_value == equity_curve[1][2]
             end_date == equity_curve[Len(equity_curve)][1]
             end_value == equity_curve[Len(equity_curve)][2]
             days == end_date - start_date
         IN  IF days <= 0
             THEN Raise("ValueError", "equity_curve must span positive time")
             ELSE LET years == RDiv(RInt(days), DaysPerYear)
                  IN  IF start_value.n = 0
                      THEN Raise("ZeroDivisionError", "float division by zero")
                      ELSE PowMinusOne(RDiv(end_value, start_value),
                                       RDiv(RInt(1), years))

\* The significant bits of a float. A double has 53; the rounding below is
\* the one of IEEE 754 (to nearest, ties to even) at any number of bits.
MantissaBits == 3

\* n/d >= 0 rounded to an integer, ties to even.
RoundHalfEven(n, d) ==
    LET q == n \div d
        rem == n % d
    IN  IF 2 * rem < d \/ (2 * rem = d /\ q % 2 = 0) THEN q ELSE q + 1

\* The float nearest to n/d > 0.
RECURSIVE FlPos(_, _)
FlPos(n, d) ==
    IF n >= d * TwoTo(MantissaBits)
    THEN RMul(RInt(2), FlPos(n, 2 * d))
    ELSE IF n < d * TwoTo(MantissaBits - 1)
         THEN RDiv(FlPos(2 * n, d), RInt(2))
         ELSE RInt(RoundHalfEven(n, d))

\* The float nearest to the rational x.
Fl(x) ==
    IF x.n = 0 THEN x
    ELSE IF x.n < 0 THEN RSub(RInt(0), FlPos(-x.n, x.d))
         ELSE FlPos(x.n, x.d)

FAdd(x, y) == Fl(RAdd(x, y))
FSub(x, y) == Fl(RSub(x, y))
FMul(x, y) == Fl(RMul(x, y))
FDiv(x, y) == Fl(RDiv(x, y))

\* sum(values) over floats, left to right from 0.
RECURSIVE FSum(_, _)
FSum(values, total) ==
    IF values = <<>> THEN total
    ELSE FSum(Tail(values), FAdd(total, values[1]))

\* 252.0, the periods in a year of `sqrt(252.0)`.
AnnualPeriods == 252

\* [curr / prev - 1.0 for prev, curr in consecutive points]
SimpleReturns(equity_curve) ==
    [i \in 1..(Len(equity_curve) - 1) |->
        FSub(FDiv(equity_curve[i + 1][2], equity_curve[i][2]), RInt(1))]

SquaredDeviations(returns, mean) ==
    [i \in DOMAIN returns |->
        LET dev == FSub(returns[i], mean) IN FMul(dev, dev)]

\* sqrt(var) * sqrt(252.0): a square root is not a rational, the value is
\* kept as the variance it is the root of; it is 0.0 exactly when var is.
AnnualizedRoot(var) == [radicand |-> var, periods |-> AnnualPeriods]

\* A mutant of volatility: the sample variance, divided by len(returns) - 1.
volatility_sample_variance(equity_curve) ==
    IF Len(equity_curve) < 2
    THEN Raise("ValueError", "equity_curve must have at least two points")
    ELSE LET returns == SimpleReturns(equity_curve)
         IN  IF returns = <<>> THEN Return(AnnualizedRoot(RInt(0)))
             ELSE IF Len(returns) = 1
             THEN Raise("ZeroDivisionError", "float division by zero")
             ELSE
             LET mean == FDiv(FSum(returns, RInt(0)), RInt(Len(returns)))
                 var == FDiv(FSum(SquaredDeviations(returns, mean), RInt(0)),
                             RInt(Len(returns) - 1))
             IN  Return(AnnualizedRoot(var))

volatility(equity_curve) ==
    IF Len(equity_curve) < 2
    THEN Raise("ValueError", "equity_curve must have at least two points")
    ELSE LET returns == SimpleReturns(equity_curve)
         IN  IF returns = <<>> THEN Return(AnnualizedRoot(RInt(0)))
             ELSE
             LET mean == FDiv(FSum(returns, RInt(0)), RInt(Len(returns)))
                 var == FDiv(FSum(SquaredDeviations(returns, mean), RInt(0)),
                             RInt(Len(returns)))
             IN  Return(AnnualizedRoot(var))

\* A mutant of _trade_notional: the value sold plus the value bought after
\* costs.
_trade_notional_after_cost(trade) ==
    IF {"notional_sold", "notional_bought"} \subseteq DOMAIN trade
    THEN Return(RAdd(trade.notional_sold, trade.notional_bought))
    ELSE IF {"value_before", "value_after_sell"} \subseteq DOMAIN trade
    THEN Return(RAdd(trade.value_before, trade.value_after_sell))
    ELSE IF "pre_value" \in DOMAIN trade
    THEN Return(RAdd(trade.pre_value, trade.post_value))
    ELSE Raise("KeyError", "trade does not contain notional fields")

_trade_notional(trade) ==
    IF {"notional_sold", "notional_bought"} \subseteq DOMAIN trade
    THEN Return(RAdd(trade.notional_sold, trade.notional_bought))
    ELSE IF {"value_before", "value_after_sell"} \subseteq DOMAIN trade
    THEN Return(RAdd(trade.value_before, trade.value_after_sell))
    ELSE IF "pre_value" \in DOMAIN trade
    THEN Return(RMul(trade.pre_value, RInt(2)))
    ELSE Raise("KeyError", "trade does not contain notional fields")

\* sum(_trade_notional(trade) for trade in trades), or the first KeyError.
RECURSIVE TotalNotional(_, _)
TotalNotional(trades, total) ==
    IF trades = <<>> THEN Return(total)
    ELSE LET notional == _trade_notional(trades[1])
         IN  IF ~notional.ok THEN notional
             ELSE TotalNotional(Tail(trades), RAdd(total, notional.val))

\* sum(value for _, value in equity_curve)
RECURSIVE SumValues(_)
SumValues(equity_curve) ==
    IF equity_curve = <<>> THEN RInt(0)
    ELSE RAdd(equity_curve[1][2], SumValues(Tail(equity_curve)))

turnover_initial(trades, initial_value) ==
    IF RLeq(initial_value, RInt(0))
    THEN Raise("ValueError", "initial_value must be positive")
    ELSE LET total_notional == TotalNotional(trades, RInt(0))
         IN  IF ~total_notional.ok THEN total_notional
             ELSE Return(RDiv(total_notional.val, initial_value))

turnover_avg_equity(trades, equity_curve) ==
    IF equity_curve = <<>>
    THEN Raise("ValueError", "equity_curve must not be empty")
    ELSE LET average_equity == RDiv(SumValues(equity_curve),
                                    RInt(Len(equity_curve)))
             total_notional == TotalNotional(trades, RInt(0))
         IN  IF ~total_notional.ok THEN total_notional
             ELSE IF average_equity.n = 0
             THEN Raise("ZeroDivisionError", "float division by zero")
             ELSE Return(RDiv(total_notional.val, average_equity))

-----------------------------------------------------------------------------
(* The equity curves max_drawdown is applied to: one point per day, the
   values any non-negative amounts. *)

CurveValues == 0..MaxValue

DailyCurve(values) == [i \in DOMAIN values |-> <<i, RInt(values[i])>>]

DailyCurves ==
    {DailyCurve(values) :
        values \in UNION {[1..n -> CurveValues] : n \in 0..MaxCurveLen}}

InitDrawdown ==
    /\ call \in {[fn |-> "max_drawdown", equity_curve |-> c] : c \in DailyCurves}
    /\ ret = None
    /\ frame = None
    /\ world = None

CallMaxDrawdown ==
    /\ call.fn = "max_drawdown"
    /\ ret = None
    /\ ret' = Some(max_drawdown(call.equity_curve))
    /\ UNCHANGED <<call, frame, world>>

NextDrawdown == CallMaxDrawdown

SpecDrawdown == InitDrawdown /\ [][NextDrawdown]_vars

-----------------------------------------------------------------------------
(* Claims about max_drawdown. *)

DrawdownDone == call.fn = "max_drawdown" /\ ret # None

ValueAt(curve, j) == curve[j][2]

PositiveCurve(curve) == \A j \in DOMAIN curve : ValueAt(curve, j).n > 0

\* P_j: the greatest value among the points up to j.
RunningPeak(curve, j) ==
    CHOOSE p \in {ValueAt(curve, i) : i \in 1..j} :
        \A i \in 1..j : RLeq(ValueAt(curve, i), p)

DrawdownAt(curve, j) ==
    RDiv(RSub(ValueAt(curve, j), RunningPeak(curve, j)), RunningPeak(curve, j))

Dips(curve) ==
    \E i, j \in DOMAIN curve : i < j /\ RLess(ValueAt(curve, j), ValueAt(curve, i))

\* C13: on a non-empty curve of positive values max_drawdown returns the least
\* (v_j - P_j)/P_j over the points j, P_j being the greatest value among points
\* 0..j; the result is never positive, and is 0 exactly when no value lies
\* below an earlier value; on an empty curve max_drawdown raises ValueError.
C13_MaxDrawdown ==
    DrawdownDone =>
        LET curve == call.equity_curve
        IN  /\ curve = <<>> =>
                 ret[1] = Raise("ValueError", "equity_curve must not be empty")
            /\ (curve # <<>> /\ PositiveCurve(curve)) =>
                 /\ ret[1].ok
                 /\ \E j \in DOMAIN curve : ret[1].val = DrawdownAt(curve, j)
                 /\ \A j \in DOMAIN curve : RLeq(ret[1].val, DrawdownAt(curve, j))
                 /\ RLeq(ret[1].val, RInt(0))
                 /\ (ret[1].val = RInt(0)) <=> ~Dips(curve)

\* A curve that rises to a new peak after a dip and dips again from it, the
\* deepest drawdown being measured from the later peak.
C13_Witness ==
    /\ DrawdownDone
    /\ PositiveCurve(call.equity_curve)
    /\ Len(call.equity_curve) = 4
    /\ RLess(ValueAt(call.equity_curve, 2), ValueAt(call.equity_curve, 1))
    /\ RLess(ValueAt(call.equity_curve, 1), ValueAt(call.equity_curve, 3))
    /\ RLess(ValueAt(call.equity_curve, 4), ValueAt(call.equity_curve, 2))
    /\ ret[1].ok
    /\ ret[1].val = DrawdownAt(call.equity_curve, 4)

C13_FlatCurveHasNoDrawdown ==
    /\ DrawdownDone
    /\ Len(call.equity_curve) >= 2
    /\ PositiveCurve(call.equity_curve)
    /\ ret[1] = Return(RInt(0))

-----------------------------------------------------------------------------
(* The equity curves cagr is applied to: the dates in any order, a day or
   SpanDays days apart; the values zero or a power of two. *)

SpanDays == 365
MaxExp == 3
MaxCagrLen == 2

CagrDates == {1, 2, 1 + SpanDays, 2 + SpanDays}

CagrValues == {RInt(0)} \cup {RInt(TwoTo(k)) : k \in 0..MaxExp}

CagrCurves ==
    UNION {[1..n -> CagrDates \X CagrValues] : n \in 0..MaxCagrLen}

InitCagr ==
    /\ call \in {[fn |-> "cagr", equity_curve |-> c] : c \in CagrCurves}
    /\ ret = None
    /\ frame = None
    /\ world = None

CallCagr ==
    /\ call.fn = "cagr"
    /\ ret = None
    /\ ret' = Some(cagr(call.equity_curve))
    /\ UNCHANGED <<call, frame, world>>

NextCagr == CallCagr

SpecCagr == InitCagr /\ [][NextCagr]_vars

-----------------------------------------------------------------------------
(* Claims about cagr. *)

CagrDone == call.fn = "cagr" /\ ret # None

CurveDays(curve) == curve[Len(curve)][1] - curve[1][1]

\* A curve of at least two points spanning SpanDays days and doubling in value.
DoublesOverSpan(curve) ==
    /\ Len(curve) >= 2
    /\ CurveDays(curve) = SpanDays
    /\ ValueAt(curve, 1).n > 0
    /\ ValueAt(curve, Len(curve)) = RMul(RInt(2), ValueAt(curve, 1))

\* C14 (as amended): on a curve spanning exactly 365 days and doubling in
\* value cagr returns 2^(365.25/365) - 1: the exponent applied to end/start is
\* 365.25/days.
C14_ExponentIsYearOverDays ==
    (CagrDone /\ DoublesOverSpan(call.equity_curve)) =>
        ret[1] = Return([pow_base |-> RInt(2),
                         pow_exponent |-> RDiv(DaysPerYear, RInt(SpanDays))])

C14_Witness ==
    /\ CagrDone
    /\ DoublesOverSpan(call.equity_curve)
    /\ ret[1].ok
    /\ RLess(RInt(1), ret[1].val.pow_exponent)

\* C14 (as stated): on a curve spanning exactly 365 days and doubling in value
\* cagr returns 2^(365/365.25) - 1: the exponent applied to end/start is
\* days/365.25.
C14_ExponentIsDaysOverYear ==
    (CagrDone /\ DoublesOverSpan(call.equity_curve)) =>
        ret[1] = Return([pow_base |-> RInt(2),
                         pow_exponent |-> RDiv(RInt(SpanDays), DaysPerYear)])

\* C15: cagr fails when the curve has fewer than 2 points (checked first) or
\* when the day difference between its first and last dates is <= 0, and
\* returns a value in every other case with positive values.
C15_FailsExactlyOnShortOrUnspannedCurve ==
    CagrDone =>
        LET curve == call.equity_curve
        IN  /\ Len(curve) < 2 =>
                 ret[1] = Raise("ValueError",
                                "equity_curve must have at least two points")
            /\ (Len(curve) >= 2 /\ CurveDays(curve) <= 0) =>
                 ret[1] = Raise("ValueError",
                                "equity_curve must span positive time")
            /\ (Len(curve) >= 2 /\ CurveDays(curve) > 0 /\ PositiveCurve(curve)) =>
                 ret[1].ok

\* The failures of cagr the checks of its first lines raise, and the one they
\* do not: a curve of positive values rising eightfold in a day.
C15_ChecksRaiseValueError ==
    CagrDone =>
        LET curve == call.equity_curve
        IN  /\ Len(curve) < 2 =>
                 ret[1] = Raise("ValueError",
                                "equity_curve must have at least two points")
            /\ (Len(curve) >= 2 /\ CurveDays(curve) <= 0) =>
                 ret[1] = Raise("ValueError",
                                "equity_curve must span positive time")

C15_OverflowReached ==
    /\ CagrDone
    /\ Len(call.equity_curve) >= 2
    /\ CurveDays(call.equity_curve) > 0
    /\ PositiveCurve(call.equity_curve)
    /\ ~ret[1].ok
    /\ ret[1].exc = "OverflowError"

-----------------------------------------------------------------------------
(* The equity curves volatility is applied to: one point per day, the values
   powers of two (floats at any number of significant bits). *)

MaxVolExp == 6
MaxVolLen == 4

VolValues == {RInt(TwoTo(k)) : k \in 0..MaxVolExp}

VolCurves ==
    {[i \in DOMAIN values |-> <<i, values[i]>>] :
        values \in UNION {[1..n -> VolValues] : n \in 0..MaxVolLen}}

InitVolatility ==
    /\ call \in {[fn |-> "volatility", equity_curve |-> c] : c \in VolCurves}
    /\ ret = None
    /\ frame = None
    /\ world = None

CallVolatility ==
    /\ call.fn = "volatility"
    /\ ret = None
    /\ ret' = Some(volatility(call.equity_curve))
    /\ UNCHANGED <<call, frame, world>>

NextVolatility == CallVolatility

SpecVolatility == InitVolatility /\ [][NextVolatility]_vars

-----------------------------------------------------------------------------
(* Claims about volatility. *)

VolatilityDone == call.fn = "volatility" /\ ret # None

\* The period-over-period simple returns curr/prev - 1 as floats.
ReturnAt(curve, i) ==
    Fl(RSub(Fl(RDiv(ValueAt(curve, i + 1), ValueAt(curve, i))), RInt(1)))

EqualReturns(curve) ==
    \A i, j \in 1..(Len(curve) - 1) : ReturnAt(curve, i) = ReturnAt(curve, j)

IsZeroVolatility(r) == r.ok /\ r.val.radicand = RInt(0)

C16_RoundedMeanReached ==
    /\ VolatilityDone
    /\ Len(call.equity_curve) = 4
    /\ EqualReturns(call.equity_curve)
    /\ ret[1].ok
    /\ RLess(RInt(0), ret[1].val.radicand)

\* Unequal returns give a positive volatility.
C16_UnequalReturnsReached ==
    /\ VolatilityDone
    /\ ~EqualReturns(call.equity_curve)
    /\ ret[1].ok
    /\ RLess(RInt(0), ret[1].val.radicand)

-----------------------------------------------------------------------------
(* The ledgers the turnover functions are applied to: the trades and equity
   curves run_backtest returns over the whole calendar, and ledgers whose
   trades carry the other notional fields or none. *)

BacktestResults ==
    {r.val : r \in
        {x \in {run_backtest(Sorted(Dates),
                             [SPY |-> SpySeries({}), BIL |-> BilSeries({})],
                             decisions, InitialValue, cost_bps) :
                    decisions \in DecisionLists, cost_bps \in CostChoices} :
            x.ok}}

OtherTrades ==
    {[notional_sold |-> RInt(3), notional_bought |-> RInt(2)],
     [value_before |-> RInt(5), value_after_sell |-> RInt(4)],
     [date |-> 1]}

OtherLedgers == [1..1 -> OtherTrades] \cup [1..2 -> OtherTrades]

InitialValueChoices == {RInt(-100), RInt(0), InitialValue}

TurnoverCalls ==
    {[fn |-> "turnover_initial", trades |-> r.trades, initial_value |-> v] :
        r \in BacktestResults, v \in InitialValueChoices}
    \cup {[fn |-> "turnover_initial", trades |-> t, initial_value |-> v] :
        t \in OtherLedgers, v \in InitialValueChoices}
    \cup {[fn |-> "turnover_avg_equity", trades |-> r.trades,
           equity_curve |-> r.equity_curve] : r \in BacktestResults}
    \cup {[fn |-> "turnover_avg_equity", trades |-> r.trades,
           equity_curve |-> <<>>] : r \in BacktestResults}
    \cup {[fn |-> "turnover_avg_equity", trades |-> t,
           equity_curve |-> c] :
        t \in OtherLedgers, c \in {<<>>, <<<<1, RInt(0)>>>>, <<<<1, InitialValue>>>>}}

InitTurnover ==
    /\ call \in TurnoverCalls
    /\ ret = None
    /\ frame = None
    /\ world = None

CallTurnoverInitial ==
    /\ call.fn = "turnover_initial"
    /\ ret = None
    /\ ret' = Some(turnover_initial(call.trades, call.initial_value))
    /\ UNCHANGED <<call, frame, world>>

CallTurnoverAvgEquity ==
    /\ call.fn = "turnover_avg_equity"
    /\ ret = None
    /\ ret' = Some(turnover_avg_equity(call.trades, call.equity_curve))
    /\ UNCHANGED <<call, frame, world>>

NextTurnover == CallTurnoverInitial \/ CallTurnoverAvgEquity

SpecTurnover == InitTurnover /\ [][NextTurnover]_vars

-----------------------------------------------------------------------------
(* Claims about turnover_initial and turnover_avg_equity. *)

TurnoverDone == call.fn \in {"turnover_initial", "turnover_avg_equity"} /\ ret # None

\* The trades run_backtest appends carry these fields and no other.
IsBacktestLedger(trades) ==
    \A i \in DOMAIN trades :
        DOMAIN trades[i] = {"date", "from_asset", "to_asset", "pre_value",
                            "post_value", "cost_bps", "cost_amount"}

\* The sum over the trades of 2 * pre_value.
RECURSIVE TwicePreValues(_)
TwicePreValues(trades) ==
    IF trades = <<>> THEN RInt(0)
    ELSE RAdd(RAdd(trades[1].pre_value, trades[1].pre_value),
              TwicePreValues(Tail(trades)))

\* The arithmetic mean of the values of a non-empty curve.
MeanValue(curve) ==
    LET RECURSIVE Total(_)
        Total(k) == IF k = 0 THEN RInt(0)
                    ELSE RAdd(Total(k - 1), ValueAt(curve, k))
    IN  RDiv(Total(Len(curve)), RInt(Len(curve)))

\* C17: for a ledger of run_backtest turnover_initial is the sum over the
\* trades of 2 * pre_value divided by initial_value, and turnover_avg_equity
\* the same sum divided by the mean of the equity-curve values; both are 0 for
\* an empty ledger; turnover_initial raises ValueError when initial_value <= 0
\* and turnover_avg_equity when the curve is empty.
C17_Turnover ==
    TurnoverDone =>
        /\ (call.fn = "turnover_initial" /\ call.initial_value.n <= 0) =>
             ret[1] = Raise("ValueError", "initial_value must be positive")
        /\ (call.fn = "turnover_avg_equity" /\ call.equity_curve = <<>>) =>
             ret[1] = Raise("ValueError", "equity_curve must not be empty")
        /\ (call.fn = "turnover_initial" /\ call.initial_value.n > 0
              /\ IsBacktestLedger(call.trades)) =>
             /\ ret[1] = Return(RDiv(TwicePreValues(call.trades),
                                     call.initial_value))
             /\ call.trades = <<>> => ret[1].val = RInt(0)
        /\ (call.fn = "turnover_avg_equity" /\ call.equity_curve # <<>>
              /\ IsBacktestLedger(call.trades)) =>
             /\ ret[1] = Return(RDiv(TwicePreValues(call.trades),
                                     MeanValue(call.equity_curve)))
             /\ call.trades = <<>> => ret[1].val = RInt(0)

\* A ledger of two trades measured against the mean of its equity curve.
C17_Witness ==
    /\ TurnoverDone
    /\ call.fn = "turnover_avg_equity"
    /\ Len(call.trades) >= 2
    /\ IsBacktestLedger(call.trades)
    /\ call.equity_curve # <<>>
    /\ MeanValue(call.equity_curve) # InitialValue
    /\ ret[1].ok
    /\ RLess(RInt(2), ret[1].val)

C17_InitialTurnoverReached ==
    /\ TurnoverDone
    /\ call.fn = "turnover_initial"
    /\ Len(call.trades) >= 2
    /\ IsBacktestLedger(call.trades)
    /\ ret[1].ok
    /\ RLess(RInt(2), ret[1].val)

C17_EmptyLedgerReached ==
    /\ TurnoverDone
    /\ call.trades = <<>>
    /\ ret[1] = Return(RInt(0))

C17_KeyErrorReached ==
    /\ TurnoverDone
    /\ ret[1] = Raise("KeyError", "trade does not contain notional fields")

-----------------------------------------------------------------------------
(* research/runner.py: compare_variants *)

MaxVariants == 3

\* A mutant of SortByWindow: the results stay in the order of the runs.
SortByWindow_unsorted(results) == results

\* results.sort(key=lambda item: item["window"]): a stable sort, records of
\* equal window keep their order.
RECURSIVE SortByWindow(_)
SortByWindow(results) ==
    IF results = <<>> THEN <<>>
    ELSE LET i == CHOOSE k \in DOMAIN results :
                    \A j \in DOMAIN results :
                        \/ results[k].window < results[j].window
                        \/ (results[k].window = results[j].window /\ k <= j)
         IN  <<results[i]>>
             \o SortByWindow(SubSeq(results, 1, i - 1)
                             \o SubSeq(results, i + 1, Len(results)))

\* max(values) and min(values) of a non-empty list of floats.
RMax(values) ==
    CHOOSE x \in Range(values) : \A y \in Range(values) : RLeq(y, x)

RMin(values) ==
    CHOOSE x \in Range(values) : \A y \in Range(values) : RLeq(x, y)

RAbs(x) == IF x.n < 0 THEN RSub(RInt(0), x) ELSE x

\* The thresholds 0.02 and 0.05 of the verdict.
CagrThreshold == Rat(2, 100)
DrawdownThreshold == Rat(5, 100)

CagrReason == "CAGR range exceeds 2% absolute."
DrawdownReason == "Max drawdown range exceeds 5% absolute."

\* A mutant of Verdict: a range equal to its threshold is a reason too.
Verdict_inclusive(results) ==
    IF results = <<>>
    THEN Raise("ValueError", "max() arg is an empty sequence")
    ELSE
    LET cagr_values == [i \in DOMAIN results |-> results[i].cagr]
        dd_values == [i \in DOMAIN results |-> results[i].max_drawdown]
        cagr_range == RSub(RMax(cagr_values), RMin(cagr_values))
        dd_range == RSub(RMax(dd_values), RMin(dd_values))
        reasons1 == IF RLeq(CagrThreshold, RAbs(cagr_range))
                    THEN <<CagrReason>> ELSE <<>>
        reasons == IF RLeq(DrawdownThreshold, RAbs(dd_range))
                   THEN Append(reasons1, DrawdownReason) ELSE reasons1
    IN  Return([results |-> results,
                robust |-> Len(reasons) = 0,
                reasons |-> reasons])

\* compare_variants after the sort: the ranges, the reasons and the dict
\* returned; max() of no values raises ValueError.
Verdict(results) ==
    IF results = <<>>
    THEN Raise("ValueError", "max() arg is an empty sequence")
    ELSE
    LET cagr_values == [i \in DOMAIN results |-> results[i].cagr]
        dd_values == [i \in DOMAIN results |-> results[i].max_drawdown]
        cagr_range == RSub(RMax(cagr_values), RMin(cagr_values))
        dd_range == RSub(RMax(dd_values), RMin(dd_values))
        reasons1 == IF RLess(CagrThreshold, RAbs(cagr_range))
                    THEN <<CagrReason>> ELSE <<>>
        reasons == IF RLess(DrawdownThreshold, RAbs(dd_range))
                   THEN Append(reasons1, DrawdownReason) ELSE reasons1
    IN  Return([results |-> results,
                robust |-> Len(reasons) = 0,
                reasons |-> reasons])

-----------------------------------------------------------------------------
(* The inputs of compare_variants and the outcomes of run_variant, which
   reads the price data of the day: the metrics of a result record are any of
   VariantMetrics, and a run may raise instead. *)

VariantWindows == 1..MaxWindow

WindowLists == UNION {[1..n -> VariantWindows] : n \in 0..MaxVariants}

VariantMetrics ==
    {[cagr |-> Rat(1, 100), max_drawdown |-> Rat(-10, 100)],
     [cagr |-> Rat(6, 100), max_drawdown |-> Rat(-30, 100)],
     [cagr |-> Rat(3, 100), max_drawdown |-> Rat(-15, 100)],
     [cagr |-> Rat(1, 100), max_drawdown |-> Rat(-30, 100)]}

VariantErrors ==
    {Raise("ValueError", "decisions must not be empty"),
     Raise("URLError", "urlopen error")}

\* The dict run_variant returns: its window and metrics (the other entries
\* are not read by compare_variants).
VariantResult(sma_window, metrics) ==
    [window |-> sma_window,
     cagr |-> metrics.cagr,
     max_drawdown |-> metrics.max_drawdown]

InitCompare ==
    /\ call \in {[fn |-> "compare_variants", windows |-> w, cost_bps |-> c,
                  refresh |-> r] :
                    w \in WindowLists, c \in CostChoices, r \in BOOLEAN}
    /\ ret = None
    /\ frame = Some([results |-> <<>>, runs |-> <<>>, raised |-> None])
    /\ world = None

\* The window the list comprehension of compare_variants is at.
NextWindow == call.windows[Len(frame[1].results) + 1]

Running ==
    /\ call.fn = "compare_variants"
    /\ ret = None

\* A mutant of RunVariantRaises: the failed window is left out and the
\* comparison goes on.
RunVariantRaises_skipped ==
    /\ Running
    /\ Len(frame[1].runs) < Len(call.windows)
    /\ \E error \in VariantErrors :
          /\ frame' = Some([frame[1] EXCEPT
                               !.runs = Append(@, call.windows[Len(@) + 1]),
                               !.raised = Some(error)])
          /\ UNCHANGED <<call, ret, world>>

\* One run_variant(window, cost_bps, refresh) of the list comprehension
\* returns its dict.
RunVariantReturns ==
    /\ Running
    /\ Len(frame[1].results) < Len(call.windows)
    /\ \E metrics \in VariantMetrics :
          frame' = Some([frame[1] EXCEPT
                            !.results = Append(@, VariantResult(NextWindow, metrics)),
                            !.runs = Append(@, NextWindow)])
    /\ UNCHANGED <<call, ret, world>>

\* One run_variant(window, cost_bps, refresh) raises: the exception leaves
\* the list comprehension and compare_variants.
RunVariantRaises ==
    /\ Running
    /\ Len(frame[1].results) < Len(call.windows)
    /\ \E error \in VariantErrors :
          /\ frame' = Some([frame[1] EXCEPT
                               !.runs = Append(@, NextWindow),
                               !.raised = Some(error)])
          /\ ret' = Some(error)
    /\ UNCHANGED <<call, world>>

\* The list is complete: the sort, the verdict and the return.
CompareVariantsReturns ==
    /\ Running
    /\ Len(frame[1].results) = Len(call.windows)
    /\ ret' = Some(Verdict(SortByWindow(frame[1].results)))
    /\ UNCHANGED <<call, frame, world>>

NextCompare == RunVariantReturns \/ RunVariantRaises \/ CompareVariantsReturns

SpecCompare == InitCompare /\ [][NextCompare]_vars

-----------------------------------------------------------------------------
(* Claims about compare_variants. *)

CompareReturned ==
    call.fn = "compare_variants" /\ ret # None /\ ret[1].ok

\* max - min of a metric over the result records of the runs.
MetricRange(values) ==
    LET hi == CHOOSE x \in values : \A y \in values : RLeq(y, x)
        lo == CHOOSE x \in values : \A y \in values : RLeq(x, y)
    IN  RSub(hi, lo)

CagrRange == MetricRange({r.cagr : r \in Range(frame[1].results)})
DrawdownRange == MetricRange({r.max_drawdown : r \in Range(frame[1].results)})

\* C18: compare_variants returns robust = true iff cagr_range <= 0.02 and
\* dd_range <= 0.05, the ranges being max - min of the variants' cagr and
\* max_drawdown; reasons holds one string per violated threshold, the CAGR
\* reason before the drawdown reason, and is empty iff robust is true.
C18_RobustVerdict ==
    CompareReturned =>
        LET out == ret[1].val
            cagr_ok == RLeq(CagrRange, Rat(2, 100))
            dd_ok == RLeq(DrawdownRange, Rat(5, 100))
        IN  /\ out.robust \in BOOLEAN
            /\ out.robust <=> (cagr_ok /\ dd_ok)
            /\ out.reasons =
                 (IF cagr_ok THEN <<>> ELSE <<"CAGR range exceeds 2% absolute.">>)
                 \o (IF dd_ok THEN <<>>
                     ELSE <<"Max drawdown range exceeds 5% absolute.">>)
            /\ (out.reasons = <<>>) <=> out.robust

\* A robust verdict with both ranges exactly at their thresholds.
C18_Witness ==
    /\ CompareReturned
    /\ CagrRange = Rat(2, 100)
    /\ DrawdownRange = Rat(5, 100)
    /\ ret[1].val.robust
    /\ ret[1].val.reasons = <<>>

C18_BothReasonsReached ==
    /\ CompareReturned
    /\ ~ret[1].val.robust
    /\ Len(ret[1].val.reasons) = 2

C18_DrawdownReasonOnlyReached ==
    /\ CompareReturned
    /\ ret[1].val.reasons = <<"Max drawdown range exceeds 5% absolute.">>

C18_CagrReasonOnlyReached ==
    /\ CompareReturned
    /\ ret[1].val.reasons = <<"CAGR range exceeds 2% absolute.">>

C18_NoWindowsRaises ==
    /\ call.fn = "compare_variants"
    /\ call.windows = <<>>
    /\ ret = Some(Raise("ValueError", "max() arg is an empty sequence"))

IsPrefix(s, t) == Len(s) <= Len(t) /\ s = SubSeq(t, 1, Len(s))

Count(s, x) == Cardinality({i \in DOMAIN s : s[i] = x})

\* C19: compare_variants runs the variant pipeline once per element of
\* windows in the order given (at every moment the runs made are a prefix of
\* windows), and what it returns holds exactly one result record per element,
\* the records of the runs, ordered by ascending window whatever the order of
\* windows.
C19_OneRunPerWindowSortedResults ==
    call.fn = "compare_variants" =>
        /\ IsPrefix(frame[1].runs, call.windows)
        /\ CompareReturned =>
             LET results == ret[1].val.results
             IN  /\ frame[1].runs = call.windows
                 /\ Len(results) = Len(call.windows)
                 /\ \A w \in Range(call.windows) :
                       Count([i \in DOMAIN results |-> results[i].window], w)
                           = Count(call.windows, w)
                 /\ \A r \in Range(results) \cup Range(frame[1].results) :
                       Count(results, r) = Count(frame[1].results, r)
                 /\ \A i, j \in DOMAIN results :
                       i < j => results[i].window <= results[j].window

\* Three windows given in descending order are returned ascending.
C19_Witness ==
    /\ CompareReturned
    /\ Len(call.windows) = 3
    /\ call.windows[1] > call.windows[2]
    /\ call.windows[2] > call.windows[3]
    /\ frame[1].runs = call.windows
    /\ ret[1].val.results[1].window = call.windows[3]
    /\ ret[1].val.results[3].window = call.windows[1]

\* C20: if the variant run for a window fails, compare_variants fails with
\* that same error: it returns no results, no verdict and no reasons, the
\* failed window is the last run made (it is not run again), and the run of
\* no later window is started.
C20_FailurePropagates ==
    (call.fn = "compare_variants" /\ frame[1].raised # None) =>
        /\ ret = frame[1].raised
        /\ ~ret[1].ok
        /\ Len(frame[1].runs) = Len(frame[1].results) + 1
        /\ IsPrefix(frame[1].runs, call.windows)

\* The run of the second of three windows fails: one result was collected,
\* the third window is never run.
C20_Witness ==
    /\ call.fn = "compare_variants"
    /\ Len(call.windows) = 3
    /\ frame[1].raised # None
    /\ Len(frame[1].results) = 1
    /\ frame[1].runs = SubSeq(call.windows, 1, 2)
    /\ ret = frame[1].raised

-----------------------------------------------------------------------------
(* Claims about the order of return and switch in run_backtest. *)

\* price[day]/price[previous day] of an asset between the simulated days
\* k - 1 and k of a result.
AssetReturn(r, asset, k) ==
    RDiv(RInt(call.prices_by_asset[asset][r.equity_curve[k][1]]),
         RInt(call.prices_by_asset[asset][r.equity_curve[k - 1][1]]))

\* The equity of simulated day k - 1 grown by the return, on day k, of the
\* asset held at the end of day k - 1.
GrownValue(r, k) ==
    RMul(r.equity_curve[k - 1][2], AssetReturn(r, r.holdings[k - 1][2], k))

TradesOn(r, day) == {i \in DOMAIN r.trades : r.trades[i].date = day}

\* C22: on every simulated day after the first the value is first multiplied
\* by price[day]/price[previous day] of the asset held at the end of the
\* previous day, and only then a switch is processed: a trade's pre_value is
\* the previous day's equity times the old asset's return of the day, the
\* day's equity is that pre_value less the two cost legs (the new asset's
\* return of the day is not applied), and on a day without a trade the equity
\* is the previous equity times the held asset's return.
C22_ReturnBeforeSwitch ==
    BacktestReturned =>
        LET r == ret[1].val
        IN  \A k \in 2..Len(r.equity_curve) :
                LET day == r.equity_curve[k][1]
                IN  /\ \A i \in TradesOn(r, day) :
                          /\ r.trades[i].from_asset = r.holdings[k - 1][2]
                          /\ r.trades[i].pre_value = GrownValue(r, k)
                          /\ r.equity_curve[k][2] =
                                 RMul(GrownValue(r, k), TwoLegFactor(call.cost_bps))
                    /\ TradesOn(r, day) = {} =>
                          r.equity_curve[k][2] = GrownValue(r, k)

\* A trade on a day on which the two assets' returns differ, and a later day
\* without a trade on which the value moved.
C22_Witness ==
    /\ BacktestReturned
    /\ \A a \in Assets : DOMAIN call.prices_by_asset[a] = Dates
    /\ LET r == ret[1].val
       IN  /\ \E k \in 2..Len(r.equity_curve) : \E i \in TradesOn(r, r.equity_curve[k][1]) :
                 /\ AssetReturn(r, r.trades[i].to_asset, k)
                        # AssetReturn(r, r.trades[i].from_asset, k)
                 /\ r.trades[i].pre_value = GrownValue(r, k)
                 /\ r.trades[i].pre_value # r.equity_curve[k - 1][2]
           /\ \E k \in 2..Len(r.equity_curve) :
                 /\ TradesOn(r, r.equity_curve[k][1]) = {}
                 /\ r.equity_curve[k][2] # r.equity_curve[k - 1][2]

-----------------------------------------------------------------------------
(* Claims about the holdings timeline of run_backtest. *)

\* The decisions whose trade_date is a calendar day not later than day.
OnCalendarUpTo(decisions, trading_days, day) ==
    {i \in DOMAIN decisions :
        /\ decisions[i].trade_date \in Range(trading_days)
        /\ decisions[i].trade_date <= day}

\* Among them the one of the greatest trade_date (trade_dates are distinct).
LatestOnCalendar(decisions, trading_days, day) ==
    CHOOSE i \in OnCalendarUpTo(decisions, trading_days, day) :
        \A j \in OnCalendarUpTo(decisions, trading_days, day) :
            decisions[j].trade_date <= decisions[i].trade_date

\* C23: for decisions of pairwise distinct trade_dates the holdings entry of
\* each simulated day d is the target_asset of the decision of the greatest
\* trade_date <= d among the decisions whose trade_date is a calendar day;
\* a decision whose trade_date is no calendar day changes nothing.
C23_HoldingsFollowLatestDecision ==
    (BacktestReturned /\ DistinctTradeDates(call.decisions)) =>
        LET r == ret[1].val
        IN  \A k \in DOMAIN r.holdings :
                /\ OnCalendarUpTo(call.decisions, call.trading_days,
                                  r.holdings[k][1]) # {}
                /\ r.holdings[k][2] =
                     call.decisions[LatestOnCalendar(call.decisions,
                         call.trading_days, r.holdings[k][1])].target_asset

\* A decision on a day off the calendar, the latest decision of all, asks
\* for the other asset and is not followed on the next simulated day.
C23_Witness ==
    /\ BacktestReturned
    /\ DistinctTradeDates(call.decisions)
    /\ LET r == ret[1].val
       IN  \E k \in 2..Len(r.holdings) : \E i \in DOMAIN call.decisions :
               /\ call.decisions[i].trade_date \notin Range(call.trading_days)
               /\ call.decisions[i].trade_date > r.holdings[k - 1][1]
               /\ call.decisions[i].trade_date < r.holdings[k][1]
               /\ r.holdings[k][1] \notin TradeDatesOf(call.decisions)
               /\ call.decisions[i].target_asset # r.holdings[k][2]

\* A decision on a calendar day after the start is followed from that day on.
C23_SwitchFollowed ==
    /\ BacktestReturned
    /\ DistinctTradeDates(call.decisions)
    /\ \E k \in 2..Len(ret[1].val.holdings) :
           ret[1].val.holdings[k][2] # ret[1].val.holdings[k - 1][2]

-----------------------------------------------------------------------------
(* Claims about the start date of run_backtest. *)

\* C24: for every input run_backtest accepts, the first equity-curve entry is
\* (start date, initial_value), no return and no cost applied, and no trade
\* is dated on the start date, also when several decisions share the earliest
\* trade_date with different target assets.
C24_StartDateUntouched ==
    BacktestReturned =>
        LET r == ret[1].val
            start == MinDate(TradeDatesOf(call.decisions))
        IN  /\ r.equity_curve[1] = <<start, call.initial_value>>
            /\ r.holdings[1][1] = start
            /\ r.holdings[1][2] \in TargetsOn(call.decisions, start)
            /\ \A i \in DOMAIN r.trades : r.trades[i].date # start

\* Two decisions share the earliest trade_date with different targets, and
\* the walk traded on a later day.
C24_Witness ==
    /\ BacktestReturned
    /\ Cardinality(TargetsOn(call.decisions,
                             MinDate(TradeDatesOf(call.decisions)))) = 2
    /\ ret[1].val.equity_curve[1][2] = call.initial_value
    /\ ret[1].val.trades # <<>>
    /\ \A i \in DOMAIN ret[1].val.trades :
           ret[1].val.trades[i].date > ret[1].val.start_date

-----------------------------------------------------------------------------
(* Claims about the failures of make_trend_decisions. *)

\* C25: on a strictly increasing calendar and a price map defined on all its
\* days make_trend_decisions returns a list for every window > 0 (compute_sma
\* and next_trading_day never fail inside it; a window longer than the
\* calendar, or an empty calendar, gives the empty list), and raises
\* ValueError "window must be positive", its only failure, for window <= 0.
C25_OnlyInvalidWindowFails ==
    (call.fn = "make_trend_decisions" /\ ret # None
        /\ Range(call.trading_days) \subseteq DOMAIN call.spy_adj_close) =>
        /\ call.window <= 0 =>
             ret[1] = Raise("ValueError", "window must be positive")
        /\ call.window > 0 => ret[1].ok
        /\ (call.window > Len(call.trading_days) /\ call.window > 0) =>
             ret[1] = Return(<<>>)

\* A month end without enough history and the final day of the calendar are
\* both passed over, and a decision is made for a month end between them.
C25_Witness ==
    /\ call.fn = "make_trend_decisions"
    /\ ret # None
    /\ call.window >= 2
    /\ call.window <= Len(call.trading_days)
    /\ MonthOf(call.trading_days[1]) # MonthOf(call.trading_days[2])
    /\ ret[1].ok
    /\ ret[1].val # <<>>
    /\ \A k \in DOMAIN ret[1].val :
           ret[1].val[k].signal_date < call.trading_days[Len(call.trading_days)]

C25_EmptyCalendarReached ==
    /\ call.fn = "make_trend_decisions"
    /\ call.trading_days = <<>>
    /\ call.window > 0
    /\ ret = Some(Return(<<>>))

-----------------------------------------------------------------------------
(* research/runner.py: the pipeline of run_variant from the two price series
   to the BacktestResult. *)

\* {day: prices[day] for day in trading_days}
_restrict_prices(prices, trading_days) ==
    IF Range(trading_days) \subseteq DOMAIN prices
    THEN Return([day \in Range(trading_days) |-> prices[day]])
    ELSE Raise("KeyError", "prices[day]")

\* initial_value=100_000.0
VariantInitialValue == RInt(100000)

\* A mutant of variant_backtest: the calendar is that of the SPY series and
\* the series are passed on as they are.
variant_backtest_spy_calendar(spy_prices, bil_prices, sma_window, cost_bps) ==
    LET trading_days == trading_days_from_prices(spy_prices)
        decisions == make_trend_decisions(trading_days, spy_prices, sma_window)
    IN  [trading_days |-> trading_days,
         decisions |-> decisions,
         result |->
             IF ~decisions.ok THEN None
             ELSE Some(run_backtest(trading_days,
                                    [SPY |-> spy_prices, BIL |-> bil_prices],
                                    decisions.val, VariantInitialValue,
                                    cost_bps))]

\* Lines 38-52 of run_variant on the two series get_prices returned: the
\* calendar, what make_trend_decisions returned or raised, and what
\* run_backtest did (None when it was not reached).
variant_backtest(spy_prices, bil_prices, sma_window, cost_bps) ==
    LET trading_days ==
            intersect_trading_days(trading_days_from_prices(spy_prices),
                                   trading_days_from_prices(bil_prices))
        spy == _restrict_prices(spy_prices, trading_days)
        bil == _restrict_prices(bil_prices, trading_days)
    IN  IF ~spy.ok \/ ~bil.ok
        THEN [trading_days |-> trading_days,
              decisions |-> IF ~spy.ok THEN spy ELSE bil,
              result |-> None]
        ELSE
        LET decisions == make_trend_decisions(trading_days, spy.val, sma_window)
        IN  [trading_days |-> trading_days,
             decisions |-> decisions,
             result |->
                 IF ~decisions.ok THEN None
                 ELSE Some(run_backtest(trading_days,
                                        [SPY |-> spy.val, BIL |-> bil.val],
                                        decisions.val, VariantInitialValue,
                                        cost_bps))]

-----------------------------------------------------------------------------
(* The price series the pipeline is applied to: each series has any of the
   signal dates; SPY closes rise day by day or alternate between 1 and 3. *)

SpyCloseChoices ==
    {[d \in SignalDates |-> d + 1],
     [d \in SignalDates |-> IF d % 2 = 1 THEN 1 ELSE 3]}

VariantSpySeries ==
    {[d \in S |-> closes[d]] : S \in SUBSET SignalDates, closes \in SpyCloseChoices}

VariantBilSeries ==
    {[d \in S |-> IF d % 2 = 1 THEN 2 ELSE 3] : S \in SUBSET SignalDates}

InitVariant ==
    /\ call \in {[fn |-> "variant_backtest", spy_prices |-> s, bil_prices |-> b,
                  sma_window |-> w, cost_bps |-> c] :
                    s \in VariantSpySeries, b \in VariantBilSeries,
                    w \in Windows, c \in CostChoices}
    /\ ret = None
    /\ frame = None
    /\ world = None

CallVariantBacktest ==
    /\ call.fn = "variant_backtest"
    /\ ret = None
    /\ ret' = Some(Return(variant_backtest(call.spy_prices, call.bil_prices,
                                           call.sma_window, call.cost_bps)))
    /\ UNCHANGED <<call, frame, world>>

NextVariant == CallVariantBacktest

SpecVariant == InitVariant /\ [][NextVariant]_vars

-----------------------------------------------------------------------------
(* Claims about run_backtest in the variant pipeline. *)

VariantDone == call.fn = "variant_backtest" /\ ret # None

\* C26: in the variant pipeline, for any two price series and any window > 0,
\* run_backtest is reached and fails only because the decision list is empty:
\* never with "missing price for held asset", never with "start_date not in
\* trading_days" (nor in any other way).
C26_BacktestFailsOnlyOnNoDecisions ==
    (VariantDone /\ call.sma_window > 0) =>
        LET out == ret[1].val
        IN  /\ out.trading_days =
                 Sorted(DOMAIN call.spy_prices \cap DOMAIN call.bil_prices)
            /\ out.decisions.ok
            /\ out.result # None
            /\ out.decisions.val # <<>> => out.result[1].ok
            /\ out.decisions.val = <<>> =>
                 out.result[1] = Raise("ValueError", "decisions must not be empty")

\* Each series has a date the other lacks, BIL is held over a day, and
\* run_backtest returns a result with a trade.
C26_Witness ==
    /\ VariantDone
    /\ call.sma_window > 0
    /\ DOMAIN call.spy_prices \ DOMAIN call.bil_prices # {}
    /\ DOMAIN call.bil_prices \ DOMAIN call.spy_prices # {}
    /\ ret[1].val.result # None
    /\ ret[1].val.result[1].ok
    /\ ret[1].val.result[1].val.trades # <<>>
    /\ Len(ret[1].val.result[1].val.equity_curve) >= 2

C26_NoDecisionsReached ==
    /\ VariantDone
    /\ call.sma_window > 0
    /\ ret[1].val.trading_days # <<>>
    /\ ret[1].val.result = Some(Raise("ValueError", "decisions must not be empty"))

-----------------------------------------------------------------------------
(* data/stooq.py: the CSV texts, the parser and the cache of get_prices.

   A text is a sequence of lines; a line has its number of columns, the date
   of its first column and the close of its fifth (None when the field does
   not parse), and its line ending. *)

_SYMBOL_MAP == [SPY |-> "spy.us", BIL |-> "bil.us"]

normalize_symbol(symbol) ==
    IF symbol \in DOMAIN _SYMBOL_MAP
    THEN Return(_SYMBOL_MAP[symbol])
    ELSE Raise("ValueError", "unknown symbol")

\* Path.read_text: the text mode of open() turns every line ending into "\n".
read_text(text) == [i \in DOMAIN text |-> [text[i] EXCEPT !.eol = "LF"]]

\* csv.reader(csv_text.splitlines()): the rows, without their line endings.
CsvRows(csv_text) ==
    [i \in DOMAIN csv_text |->
        [len |-> csv_text[i].len, date |-> csv_text[i].date,
         close |-> csv_text[i].close]]

\* The loop of parse_stooq_daily_csv from row i on.
RECURSIVE ParseLoop(_, _, _, _)
ParseLoop(rows, i, header_seen, parsed) ==
    IF i > Len(rows) THEN parsed
    ELSE LET row == rows[i]
         IN  IF row.len = 0
             THEN ParseLoop(rows, i + 1, header_seen, parsed)
             ELSE IF ~header_seen
             THEN ParseLoop(rows, i + 1, TRUE, parsed)
             ELSE IF row.len < 5
             THEN ParseLoop(rows, i + 1, header_seen, parsed)
             ELSE IF row.date = None \/ row.close = None
             THEN ParseLoop(rows, i + 1, header_seen, parsed)
             ELSE ParseLoop(rows, i + 1, header_seen,
                            [d \in DOMAIN parsed \cup {row.date[1]} |->
                                IF d = row.date[1] THEN row.close[1]
                                ELSE parsed[d]])

parse_stooq_daily_csv(csv_text) == ParseLoop(CsvRows(csv_text), 1, FALSE, <<>>)

\* A mutant of get_prices: a cache file that exists is read and then
\* replaced by a fresh download for the next call.
get_prices_refresh_behind(w, symbol, force_refresh, online) ==
    LET normalized == normalize_symbol(symbol)
    IN  IF ~normalized.ok THEN [world |-> w, out |-> normalized]
        ELSE
        LET cache_path == normalized.val
        IN  IF w.cache[cache_path] # None /\ ~force_refresh
            THEN [world |-> IF online
                            THEN [w EXCEPT !.cache[cache_path] =
                                               Some(w.stooq[normalized.val])]
                            ELSE w,
                  out |-> Return(parse_stooq_daily_csv(
                                     read_text(w.cache[cache_path][1])))]
            ELSE IF ~online
            THEN [world |-> w, out |-> Raise("URLError", "urlopen error")]
            ELSE LET csv_text == w.stooq[normalized.val]
                 IN  [world |-> [w EXCEPT !.cache[cache_path] = Some(csv_text)],
                      out |-> Return(parse_stooq_daily_csv(csv_text))]

\* get_prices(symbol, force_refresh=...) in the world w, the download
\* succeeding or not (`online`): the world it leaves and what it returns or
\* raises. w.cache[path] is None when the file does not exist; write_text
\* writes the text as downloaded.
get_prices(w, symbol, force_refresh, online) ==
    LET normalized == normalize_symbol(symbol)
    IN  IF ~normalized.ok THEN [world |-> w, out |-> normalized]
        ELSE
        LET cache_path == normalized.val
        IN  IF w.cache[cache_path] # None /\ ~force_refresh
            THEN [world |-> w,
                  out |-> Return(parse_stooq_daily_csv(
                                     read_text(w.cache[cache_path][1])))]
            ELSE IF ~online
            THEN [world |-> w, out |-> Raise("URLError", "urlopen error")]
            ELSE LET csv_text == w.stooq[normalized.val]
                 IN  [world |-> [w EXCEPT !.cache[cache_path] = Some(csv_text)],
                      out |-> Return(parse_stooq_daily_csv(csv_text))]

-----------------------------------------------------------------------------
(* research/runner.py: run_variant. *)

\* The float of base ** exponent - 1.0 is not a rational. compare_variants
\* takes the max, the min and a difference of these floats; the model gives
\* the float the value of the power at exponent 1, base - 1, like the float
\* a function of the curve alone that grows with base.
CagrNumber(power) == RSub(power.pow_base, RInt(1))

\* Lines 38-93 of run_variant on the two series read: the dict returned or
\* the exception raised. volatility is left out: it raises on no curve that
\* cagr accepted, and compare_variants does not read it.
VariantDict(spy_prices, bil_prices, sma_window, cost_bps) ==
    LET Metrics(result) ==
            LET c == cagr(result.equity_curve)
                dd == max_drawdown(result.equity_curve)
                ti == turnover_initial(result.trades, result.initial_value)
                ta == turnover_avg_equity(result.trades, result.equity_curve)
            IN  IF ~c.ok THEN c
                ELSE IF ~dd.ok THEN dd
                ELSE IF ~ti.ok THEN ti
                ELSE IF ~ta.ok THEN ta
                ELSE Return([window |-> sma_window,
                             date_range |-> <<result.start_date, result.end_date>>,
                             final_value |-> result.final_value,
                             cagr |-> CagrNumber(c.val),
                             max_drawdown |-> dd.val,
                             turnover_initial |-> ti.val,
                             turnover_avg_equity |-> ta.val,
                             trade_count |-> Len(result.trades)])
        Outcome(out) ==
            IF ~out.decisions.ok THEN out.decisions
            ELSE IF ~out.result[1].ok THEN out.result[1]
            ELSE Metrics(out.result[1].val)
    IN  Outcome(variant_backtest(spy_prices, bil_prices, sma_window, cost_bps))

\* run_variant(sma_window, cost_bps, refresh) in the world w; online[symbol]
\* tells whether a download of the symbol succeeds.
run_variant(w, sma_window, cost_bps, refresh, online) ==
    LET WithBil(spy, bil) ==
            IF ~bil.out.ok THEN bil
            ELSE [world |-> bil.world,
                  out |-> VariantDict(spy.out.val, bil.out.val,
                                      sma_window, cost_bps)]
        WithSpy(spy) ==
            IF ~spy.out.ok THEN spy
            ELSE WithBil(spy, get_prices(spy.world, "BIL", refresh,
                                         online["BIL"]))
    IN  WithSpy(get_prices(w, "SPY", refresh, online["SPY"]))

-----------------------------------------------------------------------------
(* Two executions of compare_variants, one after the other, with the same
   arguments. The data source keeps its texts; the cache directory starts
   with any of no file, the current text or another one per symbol (for SPY
   a text of other closes, for BIL an older download). A
   download succeeds or raises URLError. frame[1].first holds what the first
   execution returned or raised and frame[1].cache_before the cache
   directory before it. *)

MaxRuns == 2

HeaderLine == [len |-> 6, date |-> None, close |-> None, eol |-> "CRLF"]

DataLine(d, c) == [len |-> 6, date |-> Some(d), close |-> Some(c), eol |-> "CRLF"]

\* A blank line, a row of too few columns and a row whose close is "N/D".
OddLines ==
    <<[len |-> 0, date |-> None, close |-> None, eol |-> "CRLF"],
      [len |-> 3, date |-> Some(1), close |-> None, eol |-> "CRLF"],
      [len |-> 6, date |-> Some(2), close |-> None, eol |-> "CRLF"]>>

CsvText(closes) ==
    <<HeaderLine>> \o [d \in 1..MaxSignalDay |-> DataLine(d, closes[d])] \o OddLines

\* The text of a download made a day earlier.
OlderText(text) ==
    SubSeq(text, 1, MaxSignalDay) \o OddLines

SpyTexts == {CsvText(closes) : closes \in SpyCloseChoices}

BilText == CsvText([d \in SignalDates |-> IF d % 2 = 1 THEN 2 ELSE 3])

CacheFiles == {_SYMBOL_MAP[s] : s \in DOMAIN _SYMBOL_MAP}

Worlds ==
    {[stooq |-> [f \in CacheFiles |-> IF f = "spy.us" THEN s ELSE BilText],
      cache |-> [f \in CacheFiles |-> IF f = "spy.us" THEN cs ELSE cb]] :
        s \in SpyTexts,
        cs \in {None} \cup {Some(t) : t \in SpyTexts},
        cb \in {None, Some(BilText), Some(OlderText(BilText))}}

RunLists == UNION {[1..n -> VariantWindows] : n \in 0..MaxRuns}

InitTwice ==
    /\ call \in {[fn |-> "compare_variants", windows |-> w, cost_bps |-> c,
                  refresh |-> r] :
                    w \in RunLists, c \in CostChoices, r \in BOOLEAN}
    /\ ret = None
    /\ world \in Worlds
    /\ frame = Some([results |-> <<>>, runs |-> <<>>, raised |-> None,
                     first |-> None, cache_before |-> world.cache])

\* One run_variant(window, cost_bps, refresh) of the list comprehension
\* returns its dict.
TwiceRunVariantReturns ==
    /\ Running
    /\ Len(frame[1].results) < Len(call.windows)
    /\ \E online \in [DOMAIN _SYMBOL_MAP -> BOOLEAN] :
       \E run \in {run_variant(world, NextWindow, call.cost_bps,
                               call.refresh, online)} :
              /\ run.out.ok
              /\ world' = run.world
              /\ frame' = Some([frame[1] EXCEPT
                                   !.results = Append(@, run.out.val),
                                   !.runs = Append(@, NextWindow)])
    /\ UNCHANGED <<call, ret>>

\* One run_variant raises: the exception leaves compare_variants.
TwiceRunVariantRaises ==
    /\ Running
    /\ Len(frame[1].results) < Len(call.windows)
    /\ \E online \in [DOMAIN _SYMBOL_MAP -> BOOLEAN] :
       \E run \in {run_variant(world, NextWindow, call.cost_bps,
                               call.refresh, online)} :
              /\ ~run.out.ok
              /\ world' = run.world
              /\ frame' = Some([frame[1] EXCEPT
                                   !.runs = Append(@, NextWindow),
                                   !.raised = Some(run.out)])
              /\ ret' = Some(run.out)
    /\ UNCHANGED call

\* The list is complete: the sort, the verdict and the return.
TwiceCompareVariantsReturns ==
    /\ Running
    /\ Len(frame[1].results) = Len(call.windows)
    /\ ret' = Some(Verdict(SortByWindow(frame[1].results)))
    /\ UNCHANGED <<call, frame, world>>

\* The first execution is over: compare_variants is called again with the
\* same arguments.
SecondExecution ==
    /\ call.fn = "compare_variants"
    /\ ret # None
    /\ frame[1].first = None
    /\ frame' = Some([frame[1] EXCEPT !.results = <<>>, !.runs = <<>>,
                                      !.raised = None, !.first = ret])
    /\ ret' = None
    /\ UNCHANGED <<call, world>>

NextTwice ==
    \/ TwiceRunVariantReturns
    \/ TwiceRunVariantRaises
    \/ TwiceCompareVariantsReturns
    \/ SecondExecution

SpecTwice == InitTwice /\ [][NextTwice]_vars

-----------------------------------------------------------------------------
(* Claims about two executions of compare_variants. *)

BothExecuted ==
    /\ call.fn = "compare_variants"
    /\ frame # None
    /\ "first" \in DOMAIN frame[1]
    /\ frame[1].first # None
    /\ ret # None

DownloadFailed(outcome) == ~outcome.ok /\ outcome.exc = "URLError"

\* C21: two executions of compare_variants with the same windows, cost_bps
\* and refresh flag, the data source unchanged, return the same dict (the
\* same robust verdict, reasons and per-window metrics), whatever files the
\* cache directory held before the first; and when neither fails to
\* download, they also raise the same exception.
C21_SameOutcomeTwice ==
    BothExecuted =>
        LET first == frame[1].first[1]
            second == ret[1]
        IN  /\ (first.ok /\ second.ok) => first = second
            /\ (~DownloadFailed(first) /\ ~DownloadFailed(second)) =>
                   first = second

\* No SPY file and an older BIL file before the first execution, no refresh:
\* the first execution downloads SPY and reads the older BIL file, the second
\* reads both files, and the two return the same dict of two results.
C21_Witness ==
    /\ BothExecuted
    /\ ~call.refresh
    /\ frame[1].cache_before["spy.us"] = None
    /\ frame[1].cache_before["bil.us"] = Some(OlderText(BilText))
    /\ world.cache["spy.us"] = Some(world.stooq["spy.us"])
    /\ ret[1].ok
    /\ Len(ret[1].val.results) = 2
    /\ ret[1].val.results[1].window # ret[1].val.results[2].window
    /\ frame[1].first = ret

\* With refresh, older files are replaced and both executions return the
\* same dict.
C21_RefreshReached ==
    /\ BothExecuted
    /\ call.refresh
    /\ frame[1].cache_before["spy.us"] \notin {None, Some(world.stooq["spy.us"])}
    /\ \A f \in CacheFiles : world.cache[f] = Some(world.stooq[f])
    /\ ret[1].ok
    /\ ret[1].val.results # <<>>
    /\ frame[1].first = ret

\* A download fails in the first execution only.
C21_DownloadFailureReached ==
    /\ BothExecuted
    /\ DownloadFailed(frame[1].first[1])
    /\ ret[1].ok

\* Both executions raise the same exception of the pipeline.
C21_SameFailureReached ==
    /\ BothExecuted
    /\ ~ret[1].ok
    /\ ~DownloadFailed(ret[1])
    /\ frame[1].first = ret
=============================================================================
